---- MODULE Spec2Model ----
(***************************************************************************)
(* presidium-websocket v3.0.0: the frame codec, the chunk FIFO and the     *)
(* connection state machine of the client WebSocket and of the server-side *)
(* ServerWebsocket, over a byte-oriented transport.                        *)
(*                                                                         *)
(* Bytes are integers 0..255, buffers are sequences of bytes.  One         *)
(* endpoint (role "client" or "server") is modelled together with its      *)
(* transport; the peer is the environment, which writes a handshake        *)
(* response and frames of its choice into the transport.                   *)
(***************************************************************************)
EXTENDS Integers, Sequences, FiniteSets, TLC

(***************************************************************************)
(* Bounds of the model.                                                    *)
(***************************************************************************)
\* frames the peer writes in one behaviour
MaxPeerFrames == 2
\* user calls (send, close, destroy, ...) in one behaviour
MaxCalls == 1
\* longest payload handed to send()
MaxSendLen == 2
\* largest maxMessageLength option tried
MaxMessageLengthBound == 2
\* connections a server upgrades in one behaviour
MaxConnections == 2
\* steps of a server and its connections in one behaviour
MaxServerSteps == 4

\* calls of send, sendPing, sendPong and sendClose made in a row on one
\* connection
MaxWriteCalls == 3

\* frames of one fragmented message of the peer, control frames between its
\* fragments included
MaxFragmentFrames == 4

\* calls of connect() made on one WebSocket after the one of its constructor
MaxConnectCalls == 1

\* elements put into one LinkedList in one behaviour
MaxListElements == 4

(***************************************************************************)
(* Protocol constants.                                                     *)
(***************************************************************************)
CONNECTING == 0
OPEN == 1
CLOSING == 2
CLOSED == 3

OpContinuation == 0
OpText == 1
OpBinary == 2
OpClose == 8
OpPing == 9
OpPong == 10

DeflateTail == <<0, 0, 255, 255>>

(***************************************************************************)
(* Byte helpers.                                                           *)
(***************************************************************************)
RECURSIVE XorBits(_, _, _)
XorBits(a, b, n) ==
  IF n = 0 THEN 0
  ELSE ((a + b) % 2) + 2 * XorBits(a \div 2, b \div 2, n - 1)

Xor(a, b) == XorBits(a, b, 8)

Slice(buf, from, to) ==
  \* Buffer.slice(from, to), 0-based, end exclusive, clamped to the buffer
  LET t == IF to > Len(buf) THEN Len(buf) ELSE to
  IN IF from >= t THEN <<>> ELSE SubSeq(buf, from + 1, t)

SliceFrom(buf, from) == Slice(buf, from, Len(buf))

RECURSIVE Concat(_)
Concat(list) ==
  IF list = <<>> THEN <<>> ELSE Head(list) \o Concat(Tail(list))

Includes(s, pat) ==
  \E i \in 1..(Len(s) - Len(pat) + 1) : SubSeq(s, i, i + Len(pat) - 1) = pat

IndexOf(s, pat) ==
  \* 0-based index of the first occurrence, -1 when absent
  IF Includes(s, pat)
  THEN (CHOOSE i \in 1..(Len(s) - Len(pat) + 1) :
          /\ SubSeq(s, i, i + Len(pat) - 1) = pat
          /\ \A j \in 1..(i - 1) : SubSeq(s, j, j + Len(pat) - 1) # pat) - 1
  ELSE -1

ApplyMask(payload, maskingKey) ==
  [i \in 1..Len(payload) |-> Xor(payload[i], maskingKey[((i - 1) % 4) + 1])]

(***************************************************************************)
(* encodeWebSocketFrame(payload, opcode, mask, fin, compressed).  The      *)
(* masking key is crypto.randomBytes(4), passed in by the caller.          *)
(***************************************************************************)
\* the bytes of a length written with the least significant byte first
RECURSIVE BigEndianReversed(_, _)
BigEndianReversed(n, width) ==
  IF width = 0 THEN <<>>
  ELSE <<n % 256>> \o BigEndianReversed(n \div 256, width - 1)

RECURSIVE BigEndian(_, _)
BigEndian(n, width) ==
  IF width = 0 THEN <<>>
  ELSE Append(BigEndian(n \div 256, width - 1), n % 256)

\* a header that marks every frame of a compressed message with RSV1
EncodeHeaderRsv1OnEveryFrame(payloadLen, opcode, mask, fin, compressed) ==
  LET firstByte == (IF fin THEN 128 ELSE 0)
                   + (IF compressed THEN 64 ELSE 0)
                   + opcode
      maskBit == IF mask THEN 128 ELSE 0
  IN IF payloadLen < 126
     THEN <<firstByte, maskBit + payloadLen>>
     ELSE IF payloadLen < 65536
     THEN <<firstByte, maskBit + 126>> \o BigEndian(payloadLen, 2)
     ELSE <<firstByte, maskBit + 127>> \o BigEndian(payloadLen, 8)

EncodeHeader(payloadLen, opcode, mask, fin, compressed) ==
  LET firstByte == (IF fin THEN 128 ELSE 0)
                   + (IF compressed /\ opcode # 0 THEN 64 ELSE 0)
                   + opcode
      maskBit == IF mask THEN 128 ELSE 0
  IN IF payloadLen < 126
     THEN <<firstByte, maskBit + payloadLen>>
     ELSE IF payloadLen < 65536
     THEN <<firstByte, maskBit + 126>> \o BigEndian(payloadLen, 2)
     ELSE <<firstByte, maskBit + 127>> \o BigEndian(payloadLen, 8)

encodeWebSocketFrame(payload, opcode, mask, fin, compressed, maskingKey) ==
  IF mask
  THEN EncodeHeader(Len(payload), opcode, mask, fin, compressed)
         \o maskingKey \o ApplyMask(payload, maskingKey)
  ELSE EncodeHeader(Len(payload), opcode, mask, fin, compressed) \o payload

RECURSIVE ReadBigEndian(_, _, _, _)
ReadBigEndian(buffer, i, last, acc) ==
  IF i > last THEN acc
  ELSE ReadBigEndian(buffer, i + 1, last, acc * 256 + buffer[i])

(***************************************************************************)
(* zlib raw deflate, modelled by its stored-block form (RFC 1951 3.2.4):   *)
(* one final stored block, header byte 1, LEN, NLEN, then the data.        *)
(* inflateRawSync reads blocks up to the final one and ignores what        *)
(* follows; an input that ends before a final block is complete fails.     *)
(***************************************************************************)
deflateRawSync(buf) ==
  LET n == Len(buf)
  IN <<1, n % 256, n \div 256, 255 - (n % 256), 255 - (n \div 256)>> \o buf

RECURSIVE InflateBlocks(_, _)
InflateBlocks(input, out) ==
  IF Len(input) < 5 THEN [ok |-> FALSE, data |-> <<>>]
  ELSE
    LET hdr == input[1]
        n == input[2] + 256 * input[3]
        nn == input[4] + 256 * input[5]
    IN IF (hdr \div 2) % 4 # 0 \/ n + nn # 65535 \/ Len(input) < 5 + n
       THEN [ok |-> FALSE, data |-> <<>>]
       ELSE IF hdr % 2 = 1
       THEN [ok |-> TRUE, data |-> out \o Slice(input, 5, 5 + n)]
       ELSE InflateBlocks(SliceFrom(input, 5 + n), out \o Slice(input, 5, 5 + n))

inflateRawSync(buf) == InflateBlocks(buf, <<>>)

(***************************************************************************)
(* decodeWebSocketFrame(buffer, perMessageDeflate).  kind is "need" for    *)
(* the undefined result, "rsv1" for the undefined result of the RSV1       *)
(* check (which also sends CLOSE and emits error), "frame" otherwise;      *)
(* inflateError tells that inflateRawSync threw and error was emitted.     *)
(***************************************************************************)
NeedMore == [kind |-> "need"]

\* a decoder that does not wait for the last byte of the payload
decodeWebSocketFrameWithoutLengthCheck(buffer, pmd) ==
  IF Len(buffer) < 2 THEN NeedMore
  ELSE
    LET firstByte == buffer[1]
        fin == firstByte \div 128 = 1
        rsv1 == (firstByte \div 64) % 2 = 1
        opcode == firstByte % 16
        secondByte == buffer[2]
        masked == secondByte \div 128 = 1
        len7 == secondByte % 128
    IN IF rsv1 /\ opcode = 0 THEN [kind |-> "rsv1"]
       ELSE IF len7 = 126 /\ Len(buffer) < 4 THEN NeedMore
       ELSE IF len7 = 127 /\ Len(buffer) < 10 THEN NeedMore
       ELSE
         LET payloadLen == IF len7 = 126 THEN buffer[3] * 256 + buffer[4]
                           ELSE IF len7 = 127
                           THEN ReadBigEndian(buffer, 3, 10, 0)
                           ELSE len7
             offset0 == IF len7 = 126 THEN 4 ELSE IF len7 = 127 THEN 10 ELSE 2
         IN IF FALSE
            THEN NeedMore
            ELSE
              LET maskingKey == Slice(buffer, offset0, offset0 + 4)
                  offset == IF masked THEN offset0 + 4 ELSE offset0
                  raw == Slice(buffer, offset, offset + payloadLen)
                  unmasked == IF masked THEN ApplyMask(raw, maskingKey) ELSE raw
                  doInflate == pmd /\ (rsv1 \/ opcode = 0) /\ Len(unmasked) > 0
                  inflated == inflateRawSync(unmasked \o DeflateTail)
              IN [kind |-> "frame",
                  fin |-> fin,
                  opcode |-> opcode,
                  payload |-> IF doInflate /\ inflated.ok THEN inflated.data
                              ELSE unmasked,
                  remaining |-> SliceFrom(buffer, offset + payloadLen),
                  masked |-> masked,
                  compressed |-> pmd /\ rsv1,
                  inflateError |-> doInflate /\ ~inflated.ok]

decodeWebSocketFrame(buffer, pmd) ==
  IF Len(buffer) < 2 THEN NeedMore
  ELSE
    LET firstByte == buffer[1]
        fin == firstByte \div 128 = 1
        rsv1 == (firstByte \div 64) % 2 = 1
        opcode == firstByte % 16
        secondByte == buffer[2]
        masked == secondByte \div 128 = 1
        len7 == secondByte % 128
    IN IF rsv1 /\ opcode = 0 THEN [kind |-> "rsv1"]
       ELSE IF len7 = 126 /\ Len(buffer) < 4 THEN NeedMore
       ELSE IF len7 = 127 /\ Len(buffer) < 10 THEN NeedMore
       ELSE
         LET payloadLen == IF len7 = 126 THEN buffer[3] * 256 + buffer[4]
                           ELSE IF len7 = 127
                           THEN ReadBigEndian(buffer, 3, 10, 0)
                           ELSE len7
             offset0 == IF len7 = 126 THEN 4 ELSE IF len7 = 127 THEN 10 ELSE 2
         IN IF Len(buffer) < offset0 + (IF masked THEN 4 ELSE 0) + payloadLen
            THEN NeedMore
            ELSE
              LET maskingKey == Slice(buffer, offset0, offset0 + 4)
                  offset == IF masked THEN offset0 + 4 ELSE offset0
                  raw == Slice(buffer, offset, offset + payloadLen)
                  unmasked == IF masked THEN ApplyMask(raw, maskingKey) ELSE raw
                  doInflate == pmd /\ (rsv1 \/ opcode = 0) /\ Len(unmasked) > 0
                  inflated == inflateRawSync(unmasked \o DeflateTail)
              IN [kind |-> "frame",
                  fin |-> fin,
                  opcode |-> opcode,
                  payload |-> IF doInflate /\ inflated.ok THEN inflated.data
                              ELSE unmasked,
                  remaining |-> SliceFrom(buffer, offset + payloadLen),
                  masked |-> masked,
                  compressed |-> pmd /\ rsv1,
                  inflateError |-> doInflate /\ ~inflated.ok]

(***************************************************************************)
(* decodeWebSocketHandshakeResponse(buffer).  The searched strings are     *)
(* ASCII, so searching the bytes equals searching buffer.toString('utf8'). *)
(***************************************************************************)
StrHttp11 == <<72, 84, 84, 80, 47, 49, 46, 49>>
StrCrLfCrLf == <<13, 10, 13, 10>>
Str101 == <<49, 48, 49, 32, 83, 119, 105, 116, 99, 104, 105, 110, 103, 32, 80, 114, 111, 116, 111, 99, 111, 108, 115>>
StrPmd == <<112, 101, 114, 109, 101, 115, 115, 97, 103, 101, 45, 100, 101, 102, 108, 97, 116, 101>>

\* a decoder that takes every complete response for a successful handshake
decodeWebSocketHandshakeResponseAccepting(buffer) ==
  IF Includes(buffer, StrHttp11) /\ Includes(buffer, StrCrLfCrLf)
  THEN LET index == IndexOf(buffer, StrCrLfCrLf) + 4
       IN [kind |-> "response",
           handshakeSucceeded |-> TRUE,
           perMessageDeflate |-> Includes(buffer, StrPmd),
           message |-> Slice(buffer, 0, index),
           remaining |-> SliceFrom(buffer, index)]
  ELSE [kind |-> "need"]

decodeWebSocketHandshakeResponse(buffer) ==
  IF Includes(buffer, StrHttp11) /\ Includes(buffer, StrCrLfCrLf)
  THEN LET index == IndexOf(buffer, StrCrLfCrLf) + 4
       IN [kind |-> "response",
           handshakeSucceeded |-> Includes(buffer, Str101),
           perMessageDeflate |-> Includes(buffer, StrPmd),
           message |-> Slice(buffer, 0, index),
           remaining |-> SliceFrom(buffer, index)]
  ELSE [kind |-> "need"]

(***************************************************************************)
(* The connection object (WebSocket / ServerWebsocket) with its transport. *)
(*   readyState, sentClose, closed, perMessageDeflate,                     *)
(*   continuationPayloads : fields of the object                           *)
(*   oncePing  : the server's once('ping') -> _handleOpen is still attached *)
(*   destroyed : _socket.destroy() has been called                          *)
(*   wire      : the buffers handed to _socket.write, in call order;        *)
(*               dropped marks a write made on the destroyed socket         *)
(*   events    : the events delivered to the user's listeners, in order     *)
(***************************************************************************)
VARIABLES
  role,              \* "client" (WebSocket) or "server" (ServerWebsocket)
  maxMessageLength,  \* this._maxMessageLength
  conn,              \* the connection object, see above
  chunks,            \* the LinkedList of received chunks
  inflight,          \* bytes written by the peer, not yet read
  peerFrames,        \* the frames the peer wrote, in order
  socketEnded,       \* the peer has ended the transport
  ticks,             \* _processChunk invocations queued by process.nextTick
  micro,             \* _processChunk invocations suspended at an await
  pc,                \* "loop": a _processChunk is at the head of its while loop
  routed,            \* the decoded frames _processChunk has acted on, in order
  calls,             \* the user calls made, with the readyState they found
  sentPayload,       \* the payload the peer handed to its send(), if it did
  rand,              \* what crypto.randomBytes(4) returns in this behaviour
  server,            \* the WebSocketServer with the connections it upgraded
  codec,             \* the arguments and the result of a call of the frame codec
  transport,         \* which socket connect() has made, and whose chunks are held
  linkedList         \* a LinkedList object with its maps, as the class keeps it

vars == <<role, maxMessageLength, conn, chunks, inflight, peerFrames,
          socketEnded, ticks, micro, pc, routed, calls, sentPayload, rand,
          server, codec, transport, linkedList>>

DefaultMaxMessageLength == 4096
Undefined == <<-1>>     \* the JavaScript value undefined, where a buffer is expected
MaskKeys == {<<1, 2, 3, 4>>, <<255, 0, 128, 7>>}   \* crypto.randomBytes(4)

NewConnection(r, pmd) ==
  [readyState |-> CONNECTING,
   sentClose |-> FALSE,
   closed |-> FALSE,
   perMessageDeflate |-> pmd,
   continuationPayloads |-> <<>>,
   oncePing |-> r = "server",
   destroyed |-> FALSE,
   wire |-> <<>>,
   events |-> <<>>]

Event(type, payload) == [type |-> type, payload |-> payload]

emit(c, type, payload) ==
  [c EXCEPT !.events = Append(@, Event(type, payload))]

\* a transport that puts each buffer in front of those written before it
socketWriteInFront(c, bytes) ==
  [c EXCEPT !.wire = <<[bytes |-> bytes, dropped |-> c.destroyed]>> \o @]

socketWrite(c, bytes) ==
  [c EXCEPT !.wire = Append(@, [bytes |-> bytes, dropped |-> c.destroyed])]

destroy(c, payload) ==
  emit([c EXCEPT !.destroyed = TRUE, !.closed = TRUE, !.readyState = CLOSED],
       "close", payload)

\* emit('error', e): the listener attached in the constructor runs first and
\* destroys the connection, then the user's listeners see the error.
emitError(c, message) ==
  emit(destroy(c, Undefined), "error", message)

\* a control frame written without a mask by either role
sendControlUnmasked(c, r, payload, opcode, key) ==
  socketWrite(c, encodeWebSocketFrame(payload, opcode, FALSE, TRUE, FALSE, key))

sendControl(c, r, payload, opcode, key) ==
  socketWrite(c, encodeWebSocketFrame(payload, opcode, r = "client", TRUE, FALSE, key))

sendClose(c, r, payload, key) ==
  [sendControl(c, r, payload, OpClose, key) EXCEPT !.sentClose = TRUE]

sendPing(c, r, payload, key) == sendControl(c, r, payload, OpPing, key)

\* a PONG that does not echo the payload
sendPongEmpty(c, r, payload, key) == sendControl(c, r, <<>>, OpPong, key)

sendPong(c, r, payload, key) == sendControl(c, r, payload, OpPong, key)

close(c, r, payload, key) ==
  sendClose([c EXCEPT !.readyState = CLOSING], r, payload, key)

\* WebSocketServer._handleOpen, attached with websocket.once('ping', ...)
\* after the user's listeners.
\* an `open` listener that stays attached after the first PING
handleOpenOnEveryPing(c) ==
  emit([c EXCEPT !.oncePing = FALSE, !.readyState = OPEN], "open", Undefined)

handleOpen(c) ==
  IF c.oncePing
  THEN emit([c EXCEPT !.oncePing = FALSE, !.readyState = OPEN], "open", Undefined)
  ELSE c

emitPing(c, payload) == handleOpen(emit(c, "ping", payload))

\* a continuation list that keeps the newest fragment first
continuationPushInFront(list, payload) == <<payload>> \o list

continuationPush(list, payload) == Append(list, payload)

\* a CLOSE handler that replies whether or not a CLOSE was sent before
handleCloseFrameAlwaysReplying(c, r, payload, key) ==
  LET c1 == IF r = "client" THEN [c EXCEPT !.readyState = CLOSING] ELSE c
      reply == IF r = "client" THEN <<>> ELSE payload
  IN destroy(sendClose(c1, r, reply, key), payload)

handleCloseFrame(c, r, payload, key) ==
  LET c1 == IF r = "client" THEN [c EXCEPT !.readyState = CLOSING] ELSE c
      reply == IF r = "client" THEN <<>> ELSE payload
  IN IF c1.sentClose
     THEN destroy(c1, payload)
     ELSE destroy(sendClose(c1, r, reply, key), payload)

handleDataFrame(c, r, payload, opcode, fin, key) ==
  IF opcode = OpContinuation
  THEN LET c1 == [c EXCEPT !.continuationPayloads = continuationPush(@, payload)]
       IN IF fin
          THEN [emit(c1, "message", Concat(c1.continuationPayloads))
                  EXCEPT !.continuationPayloads = <<>>]
          ELSE c1
  ELSE IF fin
  THEN CASE opcode \in {OpText, OpBinary} -> emit(c, "message", payload)
         [] opcode = OpClose -> handleCloseFrame(c, r, payload, key)
         [] opcode = OpPing -> sendPong(emitPing(c, payload), r, payload, key)
         [] opcode = OpPong -> emit(c, "pong", payload)
         [] OTHER -> c
  ELSE [c EXCEPT !.continuationPayloads = continuationPush(@, payload)]

StrMaskedFrame == <<109, 97, 115, 107, 101, 100, 32, 102, 114, 97, 109, 101>>
StrUnmaskedFrame == <<117, 110, 109, 97, 115, 107, 101, 100, 32, 102, 114, 97, 109, 101>>
StrRsv1 == <<82, 83, 86, 49, 32, 109, 117, 115, 116, 32, 110, 111, 116, 32, 98, 101, 32, 115, 101, 116, 32, 102, 111, 114, 32, 99, 111, 110, 116, 105, 110, 117, 97, 116, 105, 111, 110, 32, 102, 114, 97, 109, 101, 115>>
StrInflate == <<122, 108, 105, 98>>       \* the error thrown by zlib.inflateRawSync

\* What decodeWebSocketFrame does to the connection besides returning.
decodeEffects(c, r, res, key) ==
  IF res.kind = "rsv1"
  THEN emitError(sendClose(c, r, StrRsv1, key), StrRsv1)
  ELSE IF res.kind = "frame" /\ res.inflateError
  THEN emitError(c, StrInflate)
  ELSE c

(***************************************************************************)
(* The chunk FIFO (LinkedList): append at the back, shift from the front,  *)
(* prepend at the front.                                                   *)
(***************************************************************************)
\* a list that takes new chunks at its head
appendAtHead(list, chunk) == <<chunk>> \o list

append(list, chunk) == Append(list, chunk)
prepend(list, chunk) == <<chunk>> \o list
prependRemaining(list, remaining) ==
  IF Len(remaining) > 0 THEN prepend(list, remaining) ELSE list

(***************************************************************************)
(* The transport.  A read callback (_onread) emits one 'data' event; its   *)
(* listener appends the chunk and queues _processChunk with                *)
(* process.nextTick.  The event loop runs the next read callback only      *)
(* after the nextTick queue and the microtask queue are both empty.        *)
(***************************************************************************)
\* an event loop that runs a read callback while an invocation is pending
EventLoopAlwaysIdle == TRUE

EventLoopIdle == pc = "idle" /\ ticks = 0 /\ micro = <<>>

SocketData(k) ==
  /\ EventLoopIdle
  /\ ~conn.destroyed
  /\ k \in 1..Len(inflight)
  /\ chunks' = append(chunks, SubSeq(inflight, 1, k))
  /\ inflight' = SliceFrom(inflight, k)
  /\ ticks' = ticks + 1
  /\ UNCHANGED <<role, maxMessageLength, conn, peerFrames, socketEnded, micro,
                 pc, routed, calls, sentPayload, rand,
                 server, codec, transport, linkedList>>

\* The peer ends the transport; the end is seen after all its bytes were
\* read.  Neither class listens to 'end' or 'close' of the socket, so the
\* connection object does not change.
SocketEnd ==
  /\ EventLoopIdle
  /\ ~socketEnded
  /\ ~conn.destroyed
  /\ inflight = <<>>
  /\ socketEnded' = TRUE
  /\ UNCHANGED <<role, maxMessageLength, conn, chunks, inflight, peerFrames,
                 ticks, micro, pc, routed, calls, sentPayload, rand,
                 server, codec, transport, linkedList>>

\* The socket emits 'error': the listener of connect() / of the
\* ServerWebsocket constructor re-emits it on the connection.
SocketError ==
  /\ EventLoopIdle
  /\ ~conn.destroyed
  /\ conn' = emitError(conn, Undefined)
  /\ UNCHANGED <<role, maxMessageLength, chunks, inflight, peerFrames,
                 socketEnded, ticks, micro, pc, routed, calls, sentPayload, rand,
                 server, codec, transport, linkedList>>

(***************************************************************************)
(* _processChunk.  The client's handshake branch has no await and runs in  *)
(* one step.  The frame loop is cut at its awaits: LoopHead is the test of *)
(* the outer while with the first shift and decode, Resume is the code     *)
(* after an await up to the next await or return.                          *)
(***************************************************************************)
RECURSIVE HandshakeScan(_, _)
HandshakeScan(chunk, rest) ==
  LET res == decodeWebSocketHandshakeResponse(chunk)
  IN IF res.kind = "need" /\ rest # <<>>
     THEN HandshakeScan(chunk \o Head(rest), Tail(rest))
     ELSE [chunk |-> chunk, rest |-> rest, res |-> res]

\* a handshake that opens as soon as the status line is read
ProcessHandshakeEager(key) ==
  LET scan == HandshakeScan(Head(chunks), Tail(chunks))
  IN IF Includes(scan.chunk, Str101)
     THEN /\ chunks' = scan.rest
          /\ conn' = emit(sendPing([conn EXCEPT !.readyState = OPEN],
                                   role, <<>>, key),
                          "open", Undefined)
     ELSE /\ chunks' = prepend(scan.rest, scan.chunk)
          /\ conn' = conn

ProcessHandshake(key) ==
  LET scan == HandshakeScan(Head(chunks), Tail(chunks))
      res == scan.res
  IN IF res.kind = "need"
     THEN /\ chunks' = prepend(scan.rest, scan.chunk)
          /\ conn' = conn
     ELSE IF ~res.handshakeSucceeded
     THEN /\ chunks' = scan.rest
          /\ conn' = emitError(destroy(conn, Undefined), res.message)
     ELSE /\ chunks' = prependRemaining(scan.rest, res.remaining)
          /\ conn' = emit(
               sendPing([conn EXCEPT
                           !.perMessageDeflate = @ \/ res.perMessageDeflate,
                           !.readyState = OPEN],
                        role, <<>>, key),
               "open", Undefined)

RunTick ==
  /\ pc = "idle"
  /\ ticks > 0
  /\ ticks' = ticks - 1
  /\ IF role = "client" /\ conn.readyState = CONNECTING
     THEN /\ chunks # <<>>
          /\ ProcessHandshake(rand)
          /\ pc' = pc
     ELSE /\ pc' = "loop"
          /\ UNCHANGED <<conn, chunks>>
  /\ UNCHANGED <<role, maxMessageLength, inflight, peerFrames, socketEnded,
                 micro, routed, calls, sentPayload, rand,
                 server, codec, transport, linkedList>>

LoopHead ==
  /\ pc = "loop"
  /\ pc' = "idle"
  /\ routed' = routed
  /\ IF chunks = <<>>
     THEN UNCHANGED <<conn, chunks, micro>>
     ELSE LET chunk == Head(chunks)
              res == decodeWebSocketFrame(chunk, conn.perMessageDeflate)
          IN /\ chunks' = Tail(chunks)
             /\ conn' = decodeEffects(conn, role, res, rand)
             /\ micro' = Append(micro, [chunk |-> chunk, res |-> res])
  /\ UNCHANGED <<role, maxMessageLength, inflight, peerFrames, socketEnded,
                 ticks, calls, sentPayload, rand,
                 server, codec, transport, linkedList>>

WrongMask(r, masked) == IF r = "client" THEN masked ELSE ~masked

\* the two reasons exchanged
MaskReasonSwapped(r) == IF r = "client" THEN StrUnmaskedFrame ELSE StrMaskedFrame

MaskReason(r) == IF r = "client" THEN StrMaskedFrame ELSE StrUnmaskedFrame

Routed(res, wrongMask) ==
  [opcode |-> res.opcode, fin |-> res.fin, payload |-> res.payload,
   masked |-> res.masked, remaining |-> res.remaining, wrongMask |-> wrongMask]

Resume ==
  /\ pc = "idle"
  /\ ticks = 0
  /\ micro # <<>>
  /\ LET k == Head(micro)
     IN IF k.res.kind # "frame" /\ chunks # <<>>
        THEN \* inner while: concatenate the next chunk and decode again
             LET chunk == k.chunk \o Head(chunks)
                 res == decodeWebSocketFrame(chunk, conn.perMessageDeflate)
             IN /\ chunks' = Tail(chunks)
                /\ conn' = decodeEffects(conn, role, res, rand)
                /\ micro' = Append(Tail(micro), [chunk |-> chunk, res |-> res])
                /\ UNCHANGED <<pc, routed>>
        ELSE IF k.res.kind # "frame"
        THEN \* incomplete frame: push the bytes back and return
             /\ chunks' = prepend(chunks, k.chunk)
             /\ micro' = Tail(micro)
             /\ UNCHANGED <<conn, pc, routed>>
        ELSE IF WrongMask(role, k.res.masked)
        THEN /\ conn' = destroy(sendClose(conn, role, MaskReason(role), rand),
                                Undefined)
             /\ micro' = Tail(micro)
             /\ routed' = Append(routed, Routed(k.res, TRUE))
             /\ UNCHANGED <<chunks, pc>>
        ELSE /\ chunks' = prependRemaining(chunks, k.res.remaining)
             /\ conn' = handleDataFrame(conn, role, k.res.payload,
                                        k.res.opcode, k.res.fin, rand)
             /\ micro' = Tail(micro)
             /\ routed' = Append(routed, Routed(k.res, FALSE))
             /\ pc' = "loop"
  /\ UNCHANGED <<role, maxMessageLength, inflight, peerFrames, socketEnded,
                 ticks, calls, sentPayload, rand,
                 server, codec, transport, linkedList>>

(***************************************************************************)
(* send(payload).  A payload is a Buffer (kind "buffer", data = bytes), a  *)
(* string (kind "string", data = UTF-16 code units, all in the BMP) or     *)
(* something else (kind "other").                                          *)
(***************************************************************************)
Utf8(cp) ==
  IF cp < 128 THEN <<cp>>
  ELSE IF cp < 2048 THEN <<192 + (cp \div 64), 128 + (cp % 64)>>
  ELSE <<224 + (cp \div 4096), 128 + ((cp \div 64) % 64), 128 + (cp % 64)>>

RECURSIVE Utf8Encode(_)
Utf8Encode(str) ==
  IF str = <<>> THEN <<>> ELSE Utf8(Head(str)) \o Utf8Encode(Tail(str))

PayloadBytes(payload) ==
  IF payload.kind = "string" THEN Utf8Encode(payload.data) ELSE payload.data

PayloadLength(payload) == Len(payload.data)     \* payload.length

PayloadOpcode(payload) == IF payload.kind = "string" THEN OpText ELSE OpBinary

Compress(buffer) ==
  LET compressedPayload == deflateRawSync(buffer)
      n == Len(compressedPayload)
  IN IF n >= 4 /\ SliceFrom(compressedPayload, n - 4) = DeflateTail
     THEN Slice(compressedPayload, 0, n - 4)
     ELSE compressedPayload

\* the bound of the loop that writes the continuation frames
FragmentLoopLength(payload, buffer) == PayloadLength(payload)

RECURSIVE ContinuationFrames(_, _, _, _, _, _, _)
ContinuationFrames(buffer, index, max, loopLength, mask, compressed, key) ==
  IF index < loopLength
  THEN <<encodeWebSocketFrame(Slice(buffer, index, index + max), OpContinuation,
                              mask, index + max >= loopLength, compressed, key)>>
       \o ContinuationFrames(buffer, index + max, max, loopLength, mask,
                             compressed, key)
  ELSE <<>>

SendFrames(pmd, r, max, payload, key) ==
  LET plain == PayloadBytes(payload)
      opcode == PayloadOpcode(payload)
      compressed == pmd /\ Len(plain) > 0
      buffer == IF compressed THEN Compress(plain) ELSE plain
      mask == r = "client"
  IN IF Len(buffer) <= max
     THEN <<encodeWebSocketFrame(buffer, opcode, mask, TRUE, compressed, key)>>
     ELSE <<encodeWebSocketFrame(Slice(buffer, 0, max), opcode, mask, FALSE,
                                 compressed, key)>>
          \o ContinuationFrames(buffer, max, max,
                                FragmentLoopLength(payload, buffer),
                                mask, compressed, key)

RECURSIVE WriteAll(_, _)
WriteAll(c, frames) ==
  IF frames = <<>> THEN c
  ELSE WriteAll(socketWrite(c, Head(frames)), Tail(frames))

StrSendType == <<115, 101, 110, 100>>     \* TypeError of send()
StrConnect == <<99, 111, 110, 110, 101, 99, 116>>  \* Error of ServerWebsocket.connect()

send(c, r, max, payload, key) ==
  IF payload.kind = "other"
  THEN emitError(c, StrSendType)
  ELSE WriteAll(c, SendFrames(c.perMessageDeflate, r, max, payload, key))

(***************************************************************************)
(* Calls made by the user of the connection, between two steps of the      *)
(* event loop.                                                             *)
(***************************************************************************)
SendPayloads ==
  {[kind |-> "buffer", data |-> <<7>>],
   [kind |-> "buffer", data |-> <<7, 8>>],
   [kind |-> "buffer", data |-> <<7, 8, 9>>],
   [kind |-> "string", data |-> <<97>>],
   [kind |-> "string", data |-> <<233>>],
   [kind |-> "string", data |-> <<97, 233>>],
   [kind |-> "other", data |-> <<>>]}

NoPayload == [kind |-> "none", data |-> <<>>]

UserPayloads ==
  {[kind |-> "buffer", data |-> <<7, 8>>],
   [kind |-> "string", data |-> <<233>>],
   [kind |-> "other", data |-> <<>>]}

ControlPayloads == {<<>>, <<120>>}

UserMayCall == pc = "idle" /\ ticks = 0 /\ Len(calls) < MaxCalls

UserCall(name, c) ==
  /\ UserMayCall
  /\ conn' = c
  /\ calls' = Append(calls, [op |-> name, readyState |-> conn.readyState])
  /\ UNCHANGED <<role, maxMessageLength, chunks, inflight, peerFrames,
                 socketEnded, ticks, micro, pc, routed, sentPayload, rand,
                 server, codec, transport, linkedList>>

Send ==
  \E payload \in UserPayloads :
    UserCall("send", send(conn, role, maxMessageLength, payload, rand))

SendPing == UserCall("sendPing", sendPing(conn, role, <<120>>, rand))

SendPong == UserCall("sendPong", sendPong(conn, role, <<120>>, rand))

SendClose == UserCall("sendClose", sendClose(conn, role, <<>>, rand))

Close ==
  \E payload \in ControlPayloads :
    UserCall("close", close(conn, role, payload, rand))

Destroy == UserCall("destroy", destroy(conn, Undefined))

\* ServerWebsocket.connect()
ServerConnect ==
  /\ role = "server"
  /\ UserCall("connect", emitError(conn, StrConnect))

(***************************************************************************)
(* What the peer writes.  RawFrame builds any frame, also those that       *)
(* encodeWebSocketFrame never produces.                                    *)
(***************************************************************************)
RawFrame(fin, rsv1, opcode, masked, payload, key) ==
  <<(IF fin THEN 128 ELSE 0) + (IF rsv1 THEN 64 ELSE 0) + opcode,
    (IF masked THEN 128 ELSE 0) + Len(payload)>>
  \o (IF masked THEN key \o ApplyMask(payload, key) ELSE payload)

PeerKey == <<1, 2, 3, 4>>

\* frames for the behaviours with user calls
PeerFrameSet(r) ==
  LET m == r = "server"
  IN {RawFrame(TRUE, FALSE, OpText, m, <<97>>, PeerKey),
      RawFrame(TRUE, FALSE, OpClose, m, <<114>>, PeerKey),
      RawFrame(TRUE, FALSE, OpPing, m, <<112>>, PeerKey),
      RawFrame(TRUE, FALSE, OpText, ~m, <<119>>, PeerKey)}

\* frames for the behaviours of the receive path alone
RecvFrameSet(r) ==
  LET m == r = "server"
  IN {RawFrame(TRUE, FALSE, OpText, m, <<97>>, PeerKey),
      RawFrame(TRUE, FALSE, OpBinary, m, <<100>>, PeerKey),
      RawFrame(FALSE, FALSE, OpText, m, <<98>>, PeerKey),
      RawFrame(TRUE, FALSE, OpContinuation, m, <<99>>, PeerKey),
      RawFrame(TRUE, FALSE, OpClose, m, <<114>>, PeerKey),
      RawFrame(TRUE, FALSE, OpPong, m, <<112>>, PeerKey),
      RawFrame(TRUE, FALSE, OpText, ~m, <<119>>, PeerKey)}

RECURSIVE FrameSeqs(_, _)
FrameSeqs(set, n) ==
  IF n = 0 THEN {<<>>}
  ELSE LET shorter == FrameSeqs(set, n - 1)
       IN shorter \cup {Append(fs, f) : fs \in {x \in shorter : Len(x) = n - 1}, f \in set}

(***************************************************************************)
(* The WebSocketServer.  server.connections is the array of registered     *)
(* connections (named by their index in server.websockets, the             *)
(* ServerWebsocket objects in the order of their upgrades);                *)
(* server.upgrades are the upgrade requests handled, each with the         *)
(* response written and the connection made of it (0 if none),             *)
(* server.steps counts the steps taken on the server and its connections.  *)
(***************************************************************************)
NewServer(support) ==
  [supportPerMessageDeflate |-> support,
   connections |-> <<>>,
   websockets |-> <<>>,
   upgrades |-> <<>>,
   closed |-> FALSE,
   steps |-> 0]

StrResponseHead ==
  <<72, 84, 84, 80, 47, 49, 46, 49, 32, 49, 48, 49, 32, 83, 119, 105, 116,
    99, 104, 105, 110, 103, 32, 80, 114, 111, 116, 111, 99, 111, 108, 115,
    13, 10, 85, 112, 103, 114, 97, 100, 101, 58, 32, 119, 101, 98, 115,
    111, 99, 107, 101, 116, 13, 10, 67, 111, 110, 110, 101, 99, 116, 105,
    111, 110, 58, 32, 85, 112, 103, 114, 97, 100, 101, 13, 10, 83, 101,
    99, 45, 87, 101, 98, 83, 111, 99, 107, 101, 116, 45, 65, 99, 99, 101,
    112, 116, 58, 32>>

StrAcceptKey ==
  <<115, 51, 112, 80, 76, 77, 66, 105, 84, 120, 97, 81, 57, 107, 89, 71,
    122, 122, 104, 90, 82, 98, 75, 43, 120, 79, 111, 61>>

StrCrLf ==
  <<13, 10>>

StrExtensionsHeader ==
  <<83, 101, 99, 45, 87, 101, 98, 83, 111, 99, 107, 101, 116, 45, 69, 120,
    116, 101, 110, 115, 105, 111, 110, 115, 58, 32, 112, 101, 114, 109,
    101, 115, 115, 97, 103, 101, 45, 100, 101, 102, 108, 97, 116, 101, 13,
    10>>

StrBadRequest ==
  <<72, 84, 84, 80, 47, 49, 46, 49, 32, 52, 48, 48, 32, 66, 97, 100, 32,
    82, 101, 113, 117, 101, 115, 116, 13, 10, 13, 10>>

StrOfferedExtensions ==
  <<112, 101, 114, 109, 101, 115, 115, 97, 103, 101, 45, 100, 101, 102,
    108, 97, 116, 101, 59, 32, 99, 108, 105, 101, 110, 116, 95, 109, 97,
    120, 95, 119, 105, 110, 100, 111, 119, 95, 98, 105, 116, 115>>

\* The upgrade request as the server reads it: whether the headers ask for
\* a websocket with a key, and the value of Sec-WebSocket-Extensions
\* (empty if the header is absent).  requestUpgrade is the request the
\* client writes.
requestUpgrade(offerPerMessageDeflate) ==
  [valid |-> TRUE,
   extensions |-> IF offerPerMessageDeflate THEN StrOfferedExtensions ELSE <<>>]

UpgradeRequests ==
  {requestUpgrade(TRUE), requestUpgrade(FALSE),
   [valid |-> FALSE, extensions |-> <<>>]}

\* the response written by _handleUpgrade for a valid request
UpgradeResponse(clientRequestedPerMessageDeflate, support) ==
  StrResponseHead \o StrAcceptKey \o StrCrLf
  \o (IF clientRequestedPerMessageDeflate /\ support
      THEN StrExtensionsHeader ELSE <<>>)
  \o StrCrLf

\* array.splice(array.indexOf(element), 1): index -1 counts from the end
remove(array, element) ==
  IF array = <<>> THEN array
  ELSE LET found == {i \in 1..Len(array) : array[i] = element}
           at == IF found = {} THEN Len(array)
                 ELSE CHOOSE i \in found : \A j \in found : i <= j
       IN SubSeq(array, 1, at - 1) \o SubSeq(array, at + 1, Len(array))

RECURSIVE removeTimes(_, _, _)
removeTimes(array, element, n) ==
  IF n = 0 THEN array ELSE removeTimes(remove(array, element), element, n - 1)

\* the 'close' listener of _handleUpgradedConnection runs once for every
\* `close` the connection emitted while it went from before to after
closeListener(connections, id, before, after) ==
  removeTimes(connections, id,
              Len(SelectSeq(after.events, LAMBDA e : e.type = "close"))
              - Len(SelectSeq(before.events, LAMBDA e : e.type = "close")))

\* WebSocketServer._processChunk on a chunk that holds whole frames
RECURSIVE processChunk(_, _, _, _)
processChunk(c, r, chunk, key) ==
  IF chunk = <<>> THEN c
  ELSE LET res == decodeWebSocketFrame(chunk, c.perMessageDeflate)
           c1 == decodeEffects(c, r, res, key)
       IN IF res.kind # "frame" THEN c1
          ELSE IF WrongMask(r, res.masked)
          THEN destroy(sendClose(c1, r, MaskReason(r), key), Undefined)
          ELSE processChunk(handleDataFrame(c1, r, res.payload, res.opcode,
                                            res.fin, key),
                            r, res.remaining, key)

\* what the websocket handler, or later the user, does with a connection
ConnectionCalls == {"none", "close", "destroy", "sendClose", "send"}

connectionCall(c, op) ==
  CASE op = "close" -> close(c, "server", <<>>, PeerKey)
    [] op = "destroy" -> destroy(c, Undefined)
    [] op = "sendClose" -> sendClose(c, "server", <<>>, PeerKey)
    [] op = "send" -> send(c, "server", DefaultMaxMessageLength,
                           [kind |-> "string", data |-> StrPmd], PeerKey)
    [] OTHER -> c

\* the chunks a client writes to a server-side connection
ServerChunks ==
  LET ping == RawFrame(TRUE, FALSE, OpPing, TRUE, <<112>>, PeerKey)
      text == RawFrame(TRUE, FALSE, OpText, TRUE, <<97>>, PeerKey)
      cls == RawFrame(TRUE, FALSE, OpClose, TRUE, <<114>>, PeerKey)
      unmasked == RawFrame(TRUE, FALSE, OpText, FALSE, <<119>>, PeerKey)
  IN {ping, text, cls, cls \o cls, unmasked}

ServerMayStep == server.steps < MaxServerSteps

ServerStep(connections, websockets, upgrades, closed) ==
  /\ ServerMayStep
  /\ server' = [server EXCEPT !.connections = connections,
                              !.websockets = websockets,
                              !.upgrades = upgrades,
                              !.closed = closed,
                              !.steps = @ + 1]
  /\ UNCHANGED <<role, maxMessageLength, conn, chunks, inflight, peerFrames,
                 socketEnded, ticks, micro, pc, routed, calls, sentPayload,
                 rand, codec, transport, linkedList>>

\* _handleUpgrade: the response to a request, and for a valid request
\* _handleUpgradedConnection: the new ServerWebsocket, the websocket handler,
\* then the registration and the 'close' listener.
handleUpgrade(srv, request, handler) ==
  IF request.valid
  THEN LET clientRequestedPerMessageDeflate ==
             Includes(request.extensions, StrPmd)
           pmd == clientRequestedPerMessageDeflate /\ srv.supportPerMessageDeflate
           websocket == connectionCall(NewConnection("server", pmd), handler)
           id == Len(srv.websockets) + 1
       IN [srv EXCEPT
             !.connections = Append(@, id),
             !.websockets = Append(@, websocket),
             !.upgrades = Append(@,
               [request |-> request,
                response |-> UpgradeResponse(clientRequestedPerMessageDeflate,
                                             srv.supportPerMessageDeflate),
                websocket |-> id])]
  ELSE [srv EXCEPT
          !.upgrades = Append(@, [request |-> request,
                                  response |-> StrBadRequest,
                                  websocket |-> 0])]

Upgrade ==
  \E request \in UpgradeRequests, handler \in ConnectionCalls :
    /\ ~server.closed
    /\ Len(server.upgrades) < MaxConnections
    /\ LET srv == handleUpgrade(server, request, handler)
       IN ServerStep(srv.connections, srv.websockets, srv.upgrades, srv.closed)

\* the transformation of one connection, with the 'close' listener
ConnectionStep(id, after) ==
  ServerStep(closeListener(server.connections, id, server.websockets[id], after),
             [server.websockets EXCEPT ![id] = after],
             server.upgrades, server.closed)

\* a 'data' event of a connection's socket, processed to the end
ConnectionData ==
  \E id \in 1..Len(server.websockets), chunk \in ServerChunks :
    /\ ~server.websockets[id].destroyed
    /\ ConnectionStep(id, processChunk(server.websockets[id], "server", chunk,
                                       PeerKey))

\* an 'error' event of a connection's socket
ConnectionError ==
  \E id \in 1..Len(server.websockets) :
    /\ ~server.websockets[id].destroyed
    /\ ConnectionStep(id, emitError(server.websockets[id], Undefined))

\* the user calls close(), destroy() or sendClose() on a connection
ConnectionCall ==
  \E id \in 1..Len(server.websockets), op \in ConnectionCalls \ {"none"} :
    ConnectionStep(id, connectionCall(server.websockets[id], op))

\* connections.forEach(connection => connection.close())
RECURSIVE closeEach(_, _)
closeEach(websockets, ids) ==
  IF ids = <<>> THEN websockets
  ELSE closeEach([websockets EXCEPT
                    ![Head(ids)] = close(@, "server", <<>>, PeerKey)],
                 Tail(ids))

\* WebSocketServer.close()
ServerClose ==
  /\ ~server.closed
  /\ ServerStep(server.connections,
                closeEach(server.websockets, server.connections),
                server.upgrades, TRUE)

\* no call of the frame codec is being looked at
NoCodec == [stage |-> "none"]

\* null and undefined, which the class tells apart nowhere (== null, truthiness)
Null == 0

\* new LinkedList(): nextMap and prevMap are Maps from an element to its
\* neighbour, first and last the ends; returned is what the last shift()
\* returned, made the number of elements made so far (elements are 1, 2, ...)
NewLinkedList ==
  [nextMap |-> <<>>, prevMap |-> <<>>, first |-> Null, last |-> Null,
   returned |-> Null, made |-> 0]

\* The socket made by the first connect() (or handed to the ServerWebsocket):
\*   socket      : the number of sockets made so far; this._socket is the last
\*   list        : the socket whose 'data' listener owns the LinkedList `chunks`
\*   priorErrors : 'error' events of earlier sockets delivered since connect()
FirstTransport == [socket |-> 1, list |-> 1, priorErrors |-> 0]

InitCommon ==
  /\ chunks = <<>>
  /\ socketEnded = FALSE
  /\ ticks = 0
  /\ micro = <<>>
  /\ pc = "idle"
  /\ routed = <<>>
  /\ calls = <<>>
  /\ server = NewServer(FALSE)
  /\ codec = NoCodec
  /\ transport = FirstTransport
  /\ linkedList = NewLinkedList

\* The client after a successful handshake: OPEN, the initial PING written,
\* 'open' emitted, nothing buffered.
OpenClient(pmd, key) ==
  emit(sendPing([NewConnection("client", pmd) EXCEPT !.readyState = OPEN],
                "client", <<>>, key),
       "open", Undefined)

\* The server-side connection after the client's initial PING: 'ping' and
\* 'open' emitted, the PONG written.
OpenServer(pmd) ==
  handleDataFrame(NewConnection("server", pmd), "server", <<>>, OpPing, TRUE,
                  PeerKey)

InitClient ==
  /\ role = "client"
  /\ rand \in MaskKeys
  /\ conn = OpenClient(FALSE, rand)

\* The server-side connection after _handleUpgradedConnection.
InitServer ==
  /\ role = "server"
  /\ rand = PeerKey
  /\ conn = NewConnection("server", FALSE)

Init ==
  /\ InitCommon
  /\ InitClient \/ InitServer
  /\ maxMessageLength \in 1..MaxMessageLengthBound
  /\ peerFrames \in FrameSeqs(PeerFrameSet(role), MaxPeerFrames)
  /\ inflight = Concat(peerFrames)
  /\ sentPayload = NoPayload

NextRecv ==
  \/ \E k \in 1..Len(inflight) : SocketData(k)
  \/ RunTick
  \/ LoopHead
  \/ Resume

Next ==
  \/ NextRecv
  \/ SocketEnd
  \/ SocketError
  \/ Send
  \/ SendPing
  \/ SendPong
  \/ SendClose
  \/ Close
  \/ Destroy
  \/ ServerConnect

Spec == Init /\ [][Next]_vars

(***************************************************************************)
(* Fair delivery of transport events: a read that is possible happens, the *)
(* event loop runs what is queued, and the peer's end of stream arrives.   *)
(* The user's calls and transport errors are under no obligation.          *)
(***************************************************************************)
FairSpec == Spec /\ WF_vars(NextRecv) /\ WF_vars(SocketEnd)

(***************************************************************************)
(* The receive path alone: an open connection of either role reads a       *)
(* stream of frames that the transport splits at will.                     *)
(***************************************************************************)
InitRecv ==
  /\ InitCommon
  /\ \/ /\ role = "client"
        /\ rand = PeerKey
        /\ conn = OpenClient(FALSE, rand)
     \/ /\ role = "server"
        /\ rand = PeerKey
        /\ conn = OpenServer(FALSE)
  /\ maxMessageLength = 1
  /\ peerFrames \in FrameSeqs(RecvFrameSet(role), MaxPeerFrames)
  /\ inflight = Concat(peerFrames)
  /\ sentPayload = NoPayload

SpecRecv == InitRecv /\ [][NextRecv]_vars

(***************************************************************************)
(* One send() of the peer, received by an open connection.  The peer has   *)
(* the other role, the same perMessageDeflate flag and its own             *)
(* maxMessageLength.                                                       *)
(***************************************************************************)
PeerRole(r) == IF r = "client" THEN "server" ELSE "client"

InitSend ==
  /\ InitCommon
  /\ \E pmd \in BOOLEAN :
       \/ /\ role = "client"
          /\ rand = PeerKey
          /\ conn = OpenClient(pmd, rand)
       \/ /\ role = "server"
          /\ rand = PeerKey
          /\ conn = OpenServer(pmd)
  /\ maxMessageLength = 1
  /\ sentPayload \in {p \in SendPayloads :
                        p.kind # "other" /\ Len(p.data) <= MaxSendLen}
  /\ \E max \in (1..MaxMessageLengthBound) \cup {DefaultMaxMessageLength},
        key \in MaskKeys :
       peerFrames = SendFrames(conn.perMessageDeflate, PeerRole(role), max,
                               sentPayload, key)
  /\ inflight = Concat(peerFrames)

SpecSend == InitSend /\ [][NextRecv]_vars

(***************************************************************************)
(* Observations used by the properties.                                    *)
(***************************************************************************)
EventsOf(c, type) == SelectSeq(c.events, LAMBDA e : e.type = type)

Payloads(evs) == [i \in 1..Len(evs) |-> evs[i].payload]

Messages(c) == Payloads(EventsOf(c, "message"))

IsSuffix(suffix, buf) ==
  /\ Len(suffix) <= Len(buf)
  /\ SliceFrom(buf, Len(buf) - Len(suffix)) = suffix

Last(seq) == seq[Len(seq)]

\* nothing is running, queued or readable any more
Quiescent == EventLoopIdle /\ (inflight = <<>> \/ conn.destroyed)

DecodedPeerFrames ==
  [i \in 1..Len(peerFrames) |->
     decodeWebSocketFrame(peerFrames[i], conn.perMessageDeflate)]

\* a continuation frame only inside a fragmented message, a new TEXT or
\* BINARY frame only outside
RECURSIVE FragmentsWellFormed(_, _)
FragmentsWellFormed(frames, inMessage) ==
  IF frames = <<>> THEN TRUE
  ELSE LET d == Head(frames)
       IN IF d.opcode = OpContinuation
          THEN inMessage /\ FragmentsWellFormed(Tail(frames), ~d.fin)
          ELSE IF d.opcode \in {OpText, OpBinary}
          THEN ~inMessage /\ FragmentsWellFormed(Tail(frames), ~d.fin)
          ELSE FragmentsWellFormed(Tail(frames), inMessage)

PeerFramesValid ==
  /\ \A i \in 1..Len(peerFrames) :
       /\ DecodedPeerFrames[i].kind = "frame"
       /\ ~WrongMask(role, DecodedPeerFrames[i].masked)
  /\ FragmentsWellFormed(DecodedPeerFrames, FALSE)

\* a _processChunk resumed after its await is about to act on this frame
AboutToRoute == pc = "idle" /\ ticks = 0 /\ micro # <<>> /\ Head(micro).res.kind = "frame"

RoutesNow == AboutToRoute /\ micro' # micro

(***************************************************************************)
(* C1: `close` is emitted exactly once per connection: in no reachable     *)
(* state have the listeners seen `close` twice.                            *)
(***************************************************************************)
CloseEmittedOnce == Len(EventsOf(conn, "close")) <= 1

(***************************************************************************)
(* C2: after destroy() has run (closed is set), no step emits a further    *)
(* event on the connection.                                                *)
(***************************************************************************)
NoEventAfterDestroy == [][conn.closed => conn'.events = conn.events]_vars

(***************************************************************************)
(* C3: the i-th `message` event belongs to the i-th final data frame       *)
(* (fin=1 TEXT, BINARY or CONTINUATION) that the peer put on the wire: it  *)
(* ends with that frame's payload, and there are never more messages than  *)
(* final frames.                                                           *)
(***************************************************************************)
FinalFrames ==
  SelectSeq(DecodedPeerFrames,
            LAMBDA d : /\ d.kind = "frame"
                       /\ d.fin
                       /\ d.opcode \in {OpContinuation, OpText, OpBinary}
                       /\ ~WrongMask(role, d.masked))

MessagesInWireOrder ==
  /\ Len(Messages(conn)) <= Len(FinalFrames)
  /\ \A i \in 1..Len(Messages(conn)) :
       IsSuffix(FinalFrames[i].payload, Messages(conn)[i])

MessagesInWireOrderWitness ==
  /\ Len(peerFrames) = 2
  /\ Messages(conn) = <<<<100>>, <<97>>>>
  /\ Len(routed) = 2

(***************************************************************************)
(* C4: when all of a stream of valid frames has been read and processed,   *)
(* the `message` events are those of the stream read as one chunk, however *)
(* the transport split it.                                                 *)
(***************************************************************************)
RECURSIVE RouteAll(_, _)
RouteAll(c, frames) ==
  IF frames = <<>> THEN c
  ELSE LET d == decodeWebSocketFrame(Head(frames), c.perMessageDeflate)
       IN RouteAll(handleDataFrame(c, role, d.payload, d.opcode, d.fin, rand),
                   Tail(frames))

OpenConnection ==
  IF role = "client" THEN OpenClient(conn.perMessageDeflate, rand)
  ELSE OpenServer(conn.perMessageDeflate)

SplitIndependent ==
  (Quiescent /\ PeerFramesValid)
    => Messages(conn) = Messages(RouteAll(OpenConnection, peerFrames))

(***************************************************************************)
(* C5: without compression, once the frames of one send(payload) of the    *)
(* peer are read and processed, exactly one `message` was emitted and its  *)
(* bytes are the payload's bytes.                                          *)
(***************************************************************************)
SendDeliversPayload ==
  (Quiescent /\ ~conn.perMessageDeflate)
    => Messages(conn) = <<PayloadBytes(sentPayload)>>

(***************************************************************************)
(* C6: with permessage-deflate on both sides, once the frames of one       *)
(* send(payload) of a non-empty payload are read and processed, exactly    *)
(* one `message` was emitted and its bytes are the uncompressed payload.   *)
(***************************************************************************)
CompressedSendDeliversPayload ==
  (Quiescent /\ conn.perMessageDeflate /\ Len(PayloadBytes(sentPayload)) > 0)
    => Messages(conn) = <<PayloadBytes(sentPayload)>>

(***************************************************************************)
(* C7: the step that routes a CLOSE frame (fin=1, right mask direction)    *)
(* with payload r writes one CLOSE frame if and only if sentClose was      *)
(* false, destroys the transport, leaves readyState CLOSED and emits       *)
(* `close` with r as its only event.                                       *)
(***************************************************************************)
IsCloseWrite(w, r) ==
  LET d == decodeWebSocketFrame(w.bytes, FALSE)
  IN /\ d.kind = "frame"
     /\ d.opcode = OpClose
     /\ d.fin
     /\ d.remaining = <<>>
     /\ d.masked = (r = "client")

RoutesClose ==
  /\ RoutesNow
  /\ Head(micro).res.opcode = OpClose
  /\ Head(micro).res.fin
  /\ ~WrongMask(role, Head(micro).res.masked)

CloseFrameHandled ==
  [][RoutesClose =>
       /\ IF conn.sentClose
          THEN conn'.wire = conn.wire
          ELSE /\ Len(conn'.wire) = Len(conn.wire) + 1
               /\ SubSeq(conn'.wire, 1, Len(conn.wire)) = conn.wire
               /\ IsCloseWrite(Last(conn'.wire), role)
       /\ conn'.sentClose
       /\ conn'.destroyed
       /\ conn'.readyState = CLOSED
       /\ conn'.events = Append(conn.events,
                                Event("close", Head(micro).res.payload))]_vars

CloseFrameHandledWitness ==
  /\ routed # <<>>
  /\ Last(routed).opcode = OpClose
  /\ ~Last(routed).wrongMask
  /\ \E i \in 1..Len(calls) : calls[i].op = "close"
  /\ Len(conn.wire) = Len(SelectSeq(conn.wire, LAMBDA w : ~w.dropped))
  /\ Len(SelectSeq(conn.wire, LAMBDA w : IsCloseWrite(w, role))) = 1
  /\ Last(conn.events) = Event("close", <<114>>)
  /\ conn.readyState = CLOSED

(***************************************************************************)
(* C8: after close() on an open connection the connection eventually is    *)
(* CLOSED and has emitted `close`, when everything the transport has to    *)
(* deliver (the peer's frames, then the end of the stream) is delivered    *)
(* and processed.                                                          *)
(***************************************************************************)
CloseCalledWhenOpen ==
  \E i \in 1..Len(calls) : calls[i].op = "close" /\ calls[i].readyState = OPEN

ClosedAndCloseEmitted ==
  conn.readyState = CLOSED /\ Len(EventsOf(conn, "close")) > 0

CloseEventuallyCloses == [](CloseCalledWhenOpen => <>ClosedAndCloseEmitted)

(***************************************************************************)
(* C9: while readyState is CLOSING no step emits a `message` event.        *)
(***************************************************************************)
NoMessageWhileClosing ==
  [][conn.readyState = CLOSING => Messages(conn') = Messages(conn)]_vars

(***************************************************************************)
(* C10: the step that finds a frame with the wrong mask direction writes   *)
(* one CLOSE frame whose payload is "unmasked frame" (server) or "masked   *)
(* frame" (client), destroys the transport, emits `close` and nothing      *)
(* else, and ends the _processChunk; no frame is acted on after it.        *)
(***************************************************************************)
MaskViolated == routed # <<>> /\ Last(routed).wrongMask

WrongMaskCloses ==
  [][/\ (RoutesNow /\ WrongMask(role, Head(micro).res.masked)) =>
          /\ Len(conn'.wire) = Len(conn.wire) + 1
          /\ SubSeq(conn'.wire, 1, Len(conn.wire)) = conn.wire
          /\ IsCloseWrite(Last(conn'.wire), role)
          /\ decodeWebSocketFrame(Last(conn'.wire).bytes, FALSE).payload
               = (IF role = "server" THEN StrUnmaskedFrame ELSE StrMaskedFrame)
          /\ conn'.destroyed
          /\ conn'.readyState = CLOSED
          /\ conn'.events = Append(conn.events, Event("close", Undefined))
          /\ pc' = "idle" /\ micro' = <<>> /\ ticks' = 0
     /\ MaskViolated => (routed' = routed /\ chunks' = chunks /\ micro' = <<>>)
    ]_vars

WrongMaskClosesWitness ==
  /\ MaskViolated
  /\ Last(routed).remaining # <<>>
  /\ ~Last(conn.wire).dropped
  /\ Quiescent

(***************************************************************************)
(* C11: every frame the endpoint has written (by send, sendPing, sendPong, *)
(* sendClose, close and the automatic PONG and CLOSE replies) has its mask *)
(* bit set if and only if the endpoint is a client.                        *)
(***************************************************************************)
MaskBit(bytes) == Len(bytes) >= 2 /\ bytes[2] >= 128

WireOpcode(bytes) == bytes[1] % 16

FramesMaskedIffClient ==
  \A i \in 1..Len(conn.wire) : MaskBit(conn.wire[i].bytes) <=> (role = "client")

FramesMaskedIffClientWitness ==
  /\ role = "server"
  /\ \E i \in 1..Len(calls) : calls[i].op = "send"
  /\ \E i \in 1..Len(conn.wire) : WireOpcode(conn.wire[i].bytes) = OpBinary
  /\ \E i \in 1..Len(conn.wire) : WireOpcode(conn.wire[i].bytes) = OpContinuation
  /\ \E i \in 1..Len(conn.wire) : WireOpcode(conn.wire[i].bytes) = OpPong
  /\ \E i \in 1..Len(conn.wire) : WireOpcode(conn.wire[i].bytes) = OpClose

(***************************************************************************)
(* A WebSocketServer with the connections it upgrades: upgrades with what  *)
(* the websocket handler does, chunks and errors of the connections'       *)
(* sockets, calls of the user on the connections, and server.close().      *)
(***************************************************************************)
InitServerSide ==
  /\ chunks = <<>>
  /\ socketEnded = FALSE
  /\ ticks = 0
  /\ micro = <<>>
  /\ pc = "idle"
  /\ routed = <<>>
  /\ calls = <<>>
  /\ role = "server"
  /\ rand = PeerKey
  /\ conn = NewConnection("server", FALSE)
  /\ maxMessageLength = 1
  /\ peerFrames = <<>>
  /\ inflight = <<>>
  /\ sentPayload = NoPayload
  /\ codec = NoCodec
  /\ transport = FirstTransport
  /\ linkedList = NewLinkedList
  /\ \E support \in BOOLEAN : server = NewServer(support)

NextServerSide ==
  \/ Upgrade
  \/ ConnectionData
  \/ ConnectionError
  \/ ConnectionCall
  \/ ServerClose

SpecServerSide == InitServerSide /\ [][NextServerSide]_vars

(***************************************************************************)
(* C12: server.connections lists exactly the upgraded connections that     *)
(* have not emitted `close`, each once, in the order of their upgrades.    *)
(***************************************************************************)
HasEmittedClose(c) == \E i \in 1..Len(c.events) : c.events[i].type = "close"

RECURSIVE LiveConnections(_, _)
LiveConnections(websockets, id) ==
  IF id > Len(websockets) THEN <<>>
  ELSE (IF HasEmittedClose(websockets[id]) THEN <<>> ELSE <<id>>)
       \o LiveConnections(websockets, id + 1)

ConnectionsAreTheLiveOnes ==
  server.connections = LiveConnections(server.websockets, 1)

(***************************************************************************)
(* C13: the step of server.close() leaves every connection that was        *)
(* registered with its transport destroyed and with exactly one CLOSE      *)
(* frame written in total: a connection that had already sent CLOSE        *)
(* writes nothing, the others write one CLOSE frame.                       *)
(***************************************************************************)
CloseFramesWritten(c) ==
  Len(SelectSeq(c.wire, LAMBDA w : IsCloseWrite(w, "server")))

ServerCloseClosesEach ==
  [][(~server.closed /\ server'.closed) =>
       \A i \in 1..Len(server.connections) :
         LET before == server.websockets[server.connections[i]]
             after == server'.websockets[server.connections[i]]
         IN /\ after.destroyed
            /\ before.sentClose => after.wire = before.wire
            /\ CloseFramesWritten(after) = 1]_vars

(***************************************************************************)
(* The receive path fed with control frames: PING with and without         *)
(* payload, PONG, and CLOSE, in any order and under any split.             *)
(***************************************************************************)
ControlFrameSet(r) ==
  LET m == r = "server"
  IN {RawFrame(TRUE, FALSE, OpPing, m, <<112>>, PeerKey),
      RawFrame(TRUE, FALSE, OpPing, m, <<>>, PeerKey),
      RawFrame(TRUE, FALSE, OpPong, m, <<113>>, PeerKey),
      RawFrame(TRUE, FALSE, OpClose, m, <<114>>, PeerKey)}

InitControl ==
  /\ InitCommon
  /\ \/ /\ role = "client"
        /\ rand \in MaskKeys
        /\ conn = OpenClient(FALSE, rand)
     \/ /\ role = "server"
        /\ rand = PeerKey
        /\ conn = NewConnection("server", FALSE)
  /\ maxMessageLength = 1
  /\ peerFrames \in FrameSeqs(ControlFrameSet(role), MaxPeerFrames)
  /\ inflight = Concat(peerFrames)
  /\ sentPayload = NoPayload

SpecControl == InitControl /\ [][NextRecv]_vars

(***************************************************************************)
(* C14: the step that routes a PING frame (fin=1, right mask direction)    *)
(* with payload p emits `ping` with p and calls _socket.write once, after  *)
(* every earlier write, with a PONG frame whose payload is p; the step     *)
(* that routes a PONG frame emits `pong` with its payload and writes       *)
(* nothing.                                                                *)
(***************************************************************************)
RoutesControl(opcode) ==
  /\ RoutesNow
  /\ Head(micro).res.opcode = opcode
  /\ Head(micro).res.fin
  /\ ~WrongMask(role, Head(micro).res.masked)

IsPongWrite(w, r, payload) ==
  LET d == decodeWebSocketFrame(w.bytes, FALSE)
  IN /\ d.kind = "frame"
     /\ d.opcode = OpPong
     /\ d.fin
     /\ d.remaining = <<>>
     /\ d.masked = (r = "client")
     /\ d.payload = payload

PingAnsweredByPong ==
  [][/\ RoutesControl(OpPing) =>
          /\ Len(conn'.events) > Len(conn.events)
          /\ SubSeq(conn'.events, 1, Len(conn.events) + 1)
               = Append(conn.events, Event("ping", Head(micro).res.payload))
          /\ Len(EventsOf(conn', "ping")) = Len(EventsOf(conn, "ping")) + 1
          /\ Len(conn'.wire) = Len(conn.wire) + 1
          /\ SubSeq(conn'.wire, 1, Len(conn.wire)) = conn.wire
          /\ IsPongWrite(Last(conn'.wire), role, Head(micro).res.payload)
          /\ Last(conn'.wire).dropped = conn.destroyed
     /\ RoutesControl(OpPong) =>
          /\ conn'.events
               = Append(conn.events, Event("pong", Head(micro).res.payload))
          /\ conn'.wire = conn.wire
    ]_vars

PingAnsweredByPongWitness ==
  /\ Len(routed) = 2
  /\ routed[1].opcode = OpPong
  /\ routed[2].opcode = OpPing
  /\ Len(EventsOf(conn, "pong")) = 1
  /\ Payloads(EventsOf(conn, "ping")) = <<<<112>>>>
  /\ Len(conn.wire) >= 2
  /\ IsPongWrite(Last(conn.wire), role, <<112>>)
  /\ ~Last(conn.wire).dropped

(***************************************************************************)
(* C15: the step in which the transport reports an error delivers `error`  *)
(* to the listeners and `close` after it, and leaves readyState CLOSED.    *)
(***************************************************************************)
ErrorThenClose ==
  [][SocketError =>
       /\ conn'.events = conn.events \o <<Event("error", Undefined),
                                          Event("close", Undefined)>>
       /\ conn'.readyState = CLOSED]_vars

(***************************************************************************)
(* The client's handshake.  The client has connected and written its       *)
(* upgrade request (conn.wire holds frames only, the request is kept in    *)
(* server.upgrades); a WebSocketServer has answered it, and its websocket  *)
(* handler may have written frames right behind the response; or a server  *)
(* that refuses websockets has answered 400.  The transport splits the     *)
(* response and the frames behind it at the places named by HandshakeCuts. *)
(***************************************************************************)
\* an HTTP server whose 'upgrade' listener answers 400
refuseUpgrade(srv, request) ==
  [srv EXCEPT !.upgrades = Append(@, [request |-> request,
                                      response |-> StrBadRequest,
                                      websocket |-> 0])]

WrittenFrames(c) == [i \in 1..Len(c.wire) |-> c.wire[i].bytes]

InitHandshake ==
  /\ chunks = <<>>
  /\ socketEnded = FALSE
  /\ ticks = 0
  /\ micro = <<>>
  /\ pc = "idle"
  /\ routed = <<>>
  /\ calls = <<>>
  /\ role = "client"
  /\ rand = PeerKey
  /\ conn = NewConnection("client", FALSE)
  /\ maxMessageLength = 1
  /\ sentPayload = NoPayload
  /\ codec = NoCodec
  /\ transport = FirstTransport
  /\ linkedList = NewLinkedList
  /\ \E offerPerMessageDeflate \in BOOLEAN, support \in BOOLEAN :
       \/ \E handler \in ConnectionCalls :
            server = handleUpgrade(NewServer(support),
                                   requestUpgrade(offerPerMessageDeflate),
                                   handler)
       \/ server = refuseUpgrade(NewServer(support),
                                 requestUpgrade(offerPerMessageDeflate))
  /\ peerFrames = IF server.websockets = <<>> THEN <<>>
                  ELSE WrittenFrames(server.websockets[1])
  /\ inflight = server.upgrades[1].response \o Concat(peerFrames)

\* numbers of bytes that a read may leave unread: none, one, the frames
\* behind the response, or these and a part of the response
HandshakeCuts ==
  LET framesLen == Len(Concat(peerFrames))
  IN {0, 1, framesLen, framesLen + 2, framesLen + 30}

SocketDataAtCut ==
  \E k \in 1..Len(inflight) :
    /\ (Len(inflight) - k) \in HandshakeCuts
    /\ SocketData(k)

NextHandshake ==
  \/ SocketDataAtCut
  \/ RunTick
  \/ LoopHead
  \/ Resume

SpecHandshake == InitHandshake /\ [][NextHandshake]_vars

ResponseIs101 == server.upgrades[1].websocket # 0

\* all bytes of the response have been read from the transport
HeadReceived == Len(inflight) <= Len(Concat(peerFrames))

FirstIndex(events, type) ==
  CHOOSE i \in 1..Len(events) :
    /\ events[i].type = type
    /\ \A j \in 1..(i - 1) : events[j].type # type

OpenOnceAtHandshake ==
  [][ResponseIs101 =>
       /\ Len(EventsOf(conn', "open")) # Len(EventsOf(conn, "open")) =>
            (conn.readyState = CONNECTING /\ conn'.readyState = OPEN)
       /\ (conn.readyState = CONNECTING /\ conn'.readyState = OPEN) =>
            conn'.events = Append(conn.events, Event("open", Undefined))
       /\ Len(EventsOf(conn', "open")) <= 1
       /\ ~HeadReceived' => (conn'.readyState = CONNECTING /\ conn'.events = <<>>)
       /\ (HeadReceived' /\ EventLoopIdle') => Len(EventsOf(conn', "open")) = 1
    ]_vars

OpenOnceAtHandshakeWitness ==
  /\ ResponseIs101
  /\ Len(EventsOf(conn, "open")) = 1
  /\ conn.readyState = OPEN
  /\ routed # <<>>
  /\ inflight = <<>>
  /\ EventLoopIdle

(***************************************************************************)
(* C18: a server-side connection is CONNECTING as long as nothing has      *)
(* been called on it and nothing has happened to it, which is how the      *)
(* websocket handler finds it; the step that routes the first PING frame   *)
(* of the client leaves it OPEN and emits `open` once; no other step       *)
(* emits `open`, later PING frames included.                               *)
(***************************************************************************)
ServerOpensOnFirstPing ==
  /\ []((role = "server" /\ calls = <<>> /\ conn.events = <<>>)
          => conn.readyState = CONNECTING)
  /\ [][role = "server" =>
          /\ (RoutesControl(OpPing) /\ EventsOf(conn, "ping") = <<>>) =>
               /\ EventsOf(conn, "open") = <<>>
               /\ conn'.readyState = OPEN
               /\ EventsOf(conn', "open") = <<Event("open", Undefined)>>
          /\ (RoutesControl(OpPing) /\ EventsOf(conn, "ping") # <<>>) =>
               EventsOf(conn', "open") = EventsOf(conn, "open")
          /\ ~RoutesControl(OpPing) =>
               EventsOf(conn', "open") = EventsOf(conn, "open")
      ]_vars

ServerOpensOnFirstPingWitness ==
  /\ role = "server"
  /\ Len(EventsOf(conn, "ping")) = 2
  /\ Len(EventsOf(conn, "open")) = 1
  /\ conn.readyState = OPEN
  /\ conn.events[1].type = "ping"
  /\ conn.events[2].type = "open"

(***************************************************************************)
(* C19: the 101 response carries the permessage-deflate extension header   *)
(* if and only if the client offered the extension and the server          *)
(* supports it, the server-side connection's perMessageDeflate flag equals *)
(* that conjunction, and so does the client's once it has opened.          *)
(***************************************************************************)
PerMessageDeflateAgreed ==
  ResponseIs101 =>
    LET upgrade == server.upgrades[1]
        both == /\ Includes(upgrade.request.extensions, StrPmd)
                /\ server.supportPerMessageDeflate
    IN /\ Includes(upgrade.response, StrExtensionsHeader) <=> both
       /\ server.websockets[1].perMessageDeflate = both
       /\ EventsOf(conn, "open") # <<>> => conn.perMessageDeflate = both

(***************************************************************************)
(* Several writing calls in a row on one open connection, while a PING of  *)
(* the peer may arrive and be answered in between.                         *)
(***************************************************************************)
InitWrite ==
  /\ InitCommon
  /\ role \in {"client", "server"}
  /\ rand = PeerKey
  /\ \E pmd \in BOOLEAN :
       conn = IF role = "client" THEN OpenClient(pmd, rand) ELSE OpenServer(pmd)
  /\ maxMessageLength = 1
  /\ peerFrames \in {<<>>,
                     <<RawFrame(TRUE, FALSE, OpPing, role = "server", <<112>>,
                                PeerKey)>>}
  /\ inflight = Concat(peerFrames)
  /\ sentPayload = NoPayload

WriteCall(name, c) ==
  /\ pc = "idle"
  /\ ticks = 0
  /\ Len(calls) < MaxWriteCalls
  /\ conn' = c
  /\ calls' = Append(calls, [op |-> name, readyState |-> conn.readyState])
  /\ UNCHANGED <<role, maxMessageLength, chunks, inflight, peerFrames,
                 socketEnded, ticks, micro, pc, routed, sentPayload, rand,
                 server, codec, transport, linkedList>>

\* the payloads of the calls of send(): those of UserPayloads and the empty
\* buffer, which send() never compresses
WritePayloads == UserPayloads \cup {[kind |-> "buffer", data |-> <<>>]}

WriteSend ==
  \E payload \in WritePayloads :
    WriteCall("send", send(conn, role, maxMessageLength, payload, rand))

WriteSendPing == WriteCall("sendPing", sendPing(conn, role, <<120>>, rand))

WriteSendPong == WriteCall("sendPong", sendPong(conn, role, <<120>>, rand))

WriteSendClose == WriteCall("sendClose", sendClose(conn, role, <<>>, rand))

NextWrite ==
  \/ WriteSend
  \/ WriteSendPing
  \/ WriteSendPong
  \/ WriteSendClose
  \/ NextRecv

SpecWrite == InitWrite /\ [][NextWrite]_vars

WireOpcodes(c) == [i \in 1..Len(c.wire) |-> WireOpcode(c.wire[i].bytes)]

\* the opcodes of the frames that this step hands to the transport
WrittenNow ==
  SubSeq(WireOpcodes(conn'), Len(conn.wire) + 1, Len(conn'.wire))

(***************************************************************************)
(* C20: every step leaves the frames written before it where they are and  *)
(* puts its own frames behind them; a send() writes nothing (its payload   *)
(* is refused) or one TEXT or BINARY frame followed by CONTINUATION frames *)
(* only; sendPing, sendPong and sendClose write one frame of their kind;   *)
(* a step that is no call writes at most one control frame.  So the frames *)
(* are on the transport in call order and the fragments of one send() are  *)
(* contiguous.                                                             *)
(***************************************************************************)
WritesInCallOrder ==
  [][/\ Len(conn.wire) <= Len(conn'.wire)
     /\ SubSeq(conn'.wire, 1, Len(conn.wire)) = conn.wire
     /\ IF calls' # calls
        THEN LET op == Last(calls').op
             IN CASE op = "send" ->
                       \/ WrittenNow = <<>>
                       \/ /\ Head(WrittenNow) \in {OpText, OpBinary}
                          /\ \A i \in 2..Len(WrittenNow) :
                               WrittenNow[i] = OpContinuation
                  [] op = "sendPing" -> WrittenNow = <<OpPing>>
                  [] op = "sendPong" -> WrittenNow = <<OpPong>>
                  [] op = "sendClose" -> WrittenNow = <<OpClose>>
                  [] OTHER -> TRUE
        ELSE WrittenNow \in {<<>>, <<OpPong>>, <<OpClose>>}
    ]_vars

\* send(<<7, 8>>) in two fragments, the answer to the peer's PING, sendPing,
\* and a second fragmented send, in this order behind what the open
\* connection had written
WritesInCallOrderWitness ==
  /\ Len(calls) = 3
  /\ calls[1].op = "send"
  /\ calls[2].op = "sendPing"
  /\ calls[3].op = "send"
  /\ Len(conn.wire) = 7
  /\ SubSeq(WireOpcodes(conn), 2, 7)
       = <<OpBinary, OpContinuation, OpPong, OpPing, OpBinary, OpContinuation>>

Rsv1(bytes) == (bytes[1] \div 64) % 2 = 1

(***************************************************************************)
(* C21: a frame is written with RSV1 set only if it is the first frame     *)
(* that a send() writes, it is a TEXT or BINARY frame, permessage-deflate  *)
(* is negotiated and the payload of that send() is not empty (so that it   *)
(* was compressed).  No CONTINUATION frame and no CLOSE, PING or PONG      *)
(* frame, written by a call or as an automatic reply, has RSV1 set.        *)
(***************************************************************************)
Rsv1OnlyOnCompressedFirstFrame ==
  [][\A i \in (Len(conn.wire) + 1)..Len(conn'.wire) :
       Rsv1(conn'.wire[i].bytes) =>
         /\ i = Len(conn.wire) + 1
         /\ WireOpcode(conn'.wire[i].bytes) \in {OpText, OpBinary}
         /\ calls' # calls
         /\ Last(calls').op = "send"
         /\ conn.perMessageDeflate
         /\ \E payload \in WritePayloads :
              /\ payload.kind # "other"
              /\ Len(PayloadBytes(payload)) > 0
              /\ conn' = send(conn, role, maxMessageLength, payload, rand)
    ]_vars

\* with permessage-deflate: a compressed send in several frames of which
\* the first alone has RSV1, a send of the empty buffer without RSV1, and
\* control frames
Rsv1OnlyOnCompressedFirstFrameWitness ==
  /\ conn.perMessageDeflate
  /\ \E i \in 1..(Len(conn.wire) - 1) :
       /\ Rsv1(conn.wire[i].bytes)
       /\ WireOpcode(conn.wire[i].bytes) = OpBinary
       /\ WireOpcode(conn.wire[i + 1].bytes) = OpContinuation
       /\ ~Rsv1(conn.wire[i + 1].bytes)
  /\ \E i \in 1..Len(conn.wire) :
       /\ WireOpcode(conn.wire[i].bytes) = OpBinary
       /\ ~Rsv1(conn.wire[i].bytes)
  /\ \E i \in 1..Len(conn.wire) : WireOpcode(conn.wire[i].bytes) = OpClose

(***************************************************************************)
(* Control frames written with payloads of the caller's choice, and        *)
(* replies to control frames of the peer, on one open connection.          *)
(***************************************************************************)
BytesOfLength(n) == [i \in 1..n |-> 120]

\* payloads on both sides of 125 bytes, the largest payload that RFC 6455
\* allows in a control frame
ControlWritePayloads ==
  {<<>>, <<120>>, BytesOfLength(125), BytesOfLength(126)}

InitControlWrite ==
  /\ InitCommon
  /\ role \in {"client", "server"}
  /\ rand = PeerKey
  /\ conn = IF role = "client" THEN OpenClient(FALSE, rand) ELSE OpenServer(FALSE)
  /\ maxMessageLength = 1
  /\ \E payload \in ControlWritePayloads, opcode \in {OpPing, OpClose} :
       peerFrames \in {<<>>, <<encodeWebSocketFrame(payload, opcode,
                                                     role = "server", TRUE,
                                                     FALSE, PeerKey)>>}
  /\ inflight = Concat(peerFrames)
  /\ sentPayload = NoPayload

ControlSendPing ==
  \E payload \in ControlWritePayloads :
    UserCall("sendPing", sendPing(conn, role, payload, rand))

ControlSendPong ==
  \E payload \in ControlWritePayloads :
    UserCall("sendPong", sendPong(conn, role, payload, rand))

ControlSendClose ==
  \E payload \in ControlWritePayloads :
    UserCall("sendClose", sendClose(conn, role, payload, rand))

ControlClose ==
  \E payload \in ControlWritePayloads :
    UserCall("close", close(conn, role, payload, rand))

\* the peer's frame arrives in one read
SocketDataWhole ==
  /\ inflight # <<>>
  /\ SocketData(Len(inflight))

NextControlWrite ==
  \/ ControlSendPing
  \/ ControlSendPong
  \/ ControlSendClose
  \/ ControlClose
  \/ SocketDataWhole
  \/ RunTick
  \/ LoopHead
  \/ Resume

SpecControlWrite == InitControlWrite /\ [][NextControlWrite]_vars

FinBit(bytes) == bytes[1] >= 128

\* the 7-bit length field of the header: 126 and 127 announce a longer
\* payload
LengthField(bytes) == bytes[2] % 128

(***************************************************************************)
(* C22: every CLOSE, PING and PONG frame handed to the transport has       *)
(* fin=1 and a payload of at most 125 bytes.                               *)
(***************************************************************************)
ControlFramesSmallAndFinal ==
  \A i \in 1..Len(conn.wire) :
    WireOpcode(conn.wire[i].bytes) >= 8 =>
      /\ FinBit(conn.wire[i].bytes)
      /\ LengthField(conn.wire[i].bytes) <= 125

(***************************************************************************)
(* The frame codec on its own: encodeWebSocketFrame is called with a       *)
(* payload on either side of the boundaries of the length encoding, and    *)
(* decodeWebSocketFrame is called with the bytes it returned, with these   *)
(* bytes and more behind them, or with a part of them.                     *)
(***************************************************************************)
\* payload lengths around the boundaries 126 and 65536 of the encoding
CodecLengths == {0, 1, 125, 126, 127, 65535, 65536}

CodecOpcodes == {OpContinuation, OpText, OpBinary, OpClose, OpPing, OpPong}

\* bytes behind the frame: none, or the start of a next frame
CodecExtras == {<<>>, <<129, 1>>}

CodecBytes(n) == [i \in 1..n |-> (7 * i + 3) % 256]

\* what send() hands to the encoder for the bytes to send
CodecCompressed(c) ==
  c.pmd /\ Len(c.payload) > 0 /\ c.opcode \in {OpText, OpBinary}

CodecBuffer(c) == IF CodecCompressed(c) THEN Compress(c.payload) ELSE c.payload

\* long payloads travel in unmasked or masked BINARY frames without
\* compression
CodecInputs ==
  {c \in [stage : {"input"},
          payload : {CodecBytes(n) : n \in CodecLengths},
          opcode : CodecOpcodes,
          mask : BOOLEAN,
          fin : BOOLEAN,
          pmd : BOOLEAN,
          key : MaskKeys,
          extra : CodecExtras,
          frame : {<<>>},
          cut : {0},
          result : {NeedMore}] :
     Len(c.payload) > 127 =>
       c.opcode = OpBinary /\ ~c.pmd /\ c.key = PeerKey}

InitCodec ==
  /\ chunks = <<>>
  /\ socketEnded = FALSE
  /\ ticks = 0
  /\ micro = <<>>
  /\ pc = "idle"
  /\ routed = <<>>
  /\ calls = <<>>
  /\ role = "client"
  /\ rand = PeerKey
  /\ conn = OpenClient(FALSE, rand)
  /\ maxMessageLength = 1
  /\ peerFrames = <<>>
  /\ inflight = <<>>
  /\ sentPayload = NoPayload
  /\ server = NewServer(FALSE)
  /\ codec \in CodecInputs
  /\ transport = FirstTransport
  /\ linkedList = NewLinkedList

CodecStep(c) ==
  /\ codec' = c
  /\ UNCHANGED <<role, maxMessageLength, conn, chunks, inflight, peerFrames,
                 socketEnded, ticks, micro, pc, routed, calls, sentPayload,
                 rand, server, transport, linkedList>>

Encode ==
  /\ codec.stage = "input"
  /\ CodecStep([codec EXCEPT
       !.stage = "encoded",
       !.frame = encodeWebSocketFrame(CodecBuffer(codec), codec.opcode,
                                      codec.mask, codec.fin,
                                      CodecCompressed(codec), codec.key)])

Decode ==
  /\ codec.stage = "encoded"
  /\ CodecStep([codec EXCEPT
       !.stage = "decoded",
       !.cut = Len(codec.frame),
       !.result = decodeWebSocketFrame(codec.frame \o codec.extra, codec.pmd)])

\* the places where a frame is cut: everywhere in a short frame, around
\* the fields of the header and before the last byte in a long one
PrefixCuts(frame) ==
  IF Len(frame) <= 140 THEN 0..(Len(frame) - 1)
  ELSE {0, 1, 2, 3, 4, 5, 7, 8, 9, 10, 11, 13, 14, 15, Len(frame) - 1}

DecodePrefix ==
  /\ codec.stage = "encoded"
  /\ \E k \in PrefixCuts(codec.frame) :
       CodecStep([codec EXCEPT
         !.stage = "prefix",
         !.cut = k,
         !.result = decodeWebSocketFrame(Slice(codec.frame, 0, k), codec.pmd)])

NextCodec ==
  \/ Encode
  \/ Decode
  \/ DecodePrefix

SpecCodec == InitCodec /\ [][NextCodec]_vars

(***************************************************************************)
(* C23: without compression, decoding the bytes that encodeWebSocketFrame  *)
(* returned for a payload, an opcode, a mask flag and a fin flag gives     *)
(* back this payload, opcode, fin flag and mask flag, and an empty         *)
(* remaining buffer.                                                       *)
(***************************************************************************)
EncodeDecodeRoundTrip ==
  (codec.stage = "decoded" /\ ~codec.pmd /\ codec.extra = <<>>) =>
    /\ codec.result.kind = "frame"
    /\ codec.result.payload = codec.payload
    /\ codec.result.opcode = codec.opcode
    /\ codec.result.fin = codec.fin
    /\ codec.result.masked = codec.mask
    /\ codec.result.remaining = <<>>

EncodeDecodeRoundTripWitness ==
  /\ codec.stage = "decoded"
  /\ ~codec.pmd
  /\ codec.extra = <<>>
  /\ codec.mask
  /\ ~codec.fin
  /\ Len(codec.payload) = 126
  /\ Len(codec.frame) = 126 + 8
  /\ codec.opcode = OpContinuation
  /\ codec.result.kind = "frame"
  /\ codec.result.payload = codec.payload

\* the frames that this step hands to the transport, as the peer reads them
\* before it inflates anything
WrittenFramesNow ==
  [i \in 1..(Len(conn'.wire) - Len(conn.wire)) |->
     decodeWebSocketFrame(conn'.wire[Len(conn.wire) + i].bytes, FALSE)]

\* the bytes that send() has to put on the wire for a payload
BytesToSend(c, payload) ==
  IF c.perMessageDeflate /\ Len(PayloadBytes(payload)) > 0
  THEN Compress(PayloadBytes(payload))
  ELSE PayloadBytes(payload)

(***************************************************************************)
(* C24: a send() of bytes longer than maxMessageLength writes a first      *)
(* frame with the opcode of the payload and fin=0 and then CONTINUATION    *)
(* frames only, each frame carries 1 to maxMessageLength bytes, the last   *)
(* frame alone has fin=1, and the payloads of the frames concatenated are  *)
(* the bytes to send; a send() of bytes that are not longer writes one     *)
(* frame with fin=1, the opcode of the payload and these bytes.            *)
(***************************************************************************)
SendFragmentsWellFormed ==
  [][\A payload \in WritePayloads :
       (/\ calls' # calls
        /\ Last(calls').op = "send"
        /\ payload.kind # "other"
        /\ conn' = send(conn, role, maxMessageLength, payload, rand))
       => LET bytes == BytesToSend(conn, payload)
              frames == WrittenFramesNow
              n == Len(frames)
          IN /\ n >= 1
             /\ \A i \in 1..n : frames[i].kind = "frame"
             /\ frames[1].opcode = PayloadOpcode(payload)
             /\ \A i \in 2..n : frames[i].opcode = OpContinuation
             /\ \A i \in 1..n : frames[i].fin <=> i = n
             /\ Concat([i \in 1..n |-> frames[i].payload]) = bytes
             /\ IF Len(bytes) > maxMessageLength
                THEN /\ n >= 2
                     /\ \A i \in 1..n :
                          /\ Len(frames[i].payload) >= 1
                          /\ Len(frames[i].payload) <= maxMessageLength
                ELSE n = 1
    ]_vars

(***************************************************************************)
(* C25: no step moves readyState to a smaller value: a connection goes     *)
(* from CONNECTING to OPEN to CLOSING to CLOSED and may skip states, but   *)
(* never goes back.                                                        *)
(***************************************************************************)
ReadyStateMovesForward == [][conn'.readyState >= conn.readyState]_vars

(***************************************************************************)
(* One fragmented message of the peer: a TEXT frame with fin=0, then       *)
(* CONTINUATION frames of which the last has fin=1, with PING and PONG     *)
(* frames between the fragments.  No frame has RSV1 set.  The transport    *)
(* delivers the bytes up to the end of a frame or one byte at a time.      *)
(***************************************************************************)
FirstFragment(r) ==
  RawFrame(FALSE, FALSE, OpText, r = "server", <<98>>, PeerKey)

MiddleFragment(r) ==
  RawFrame(FALSE, FALSE, OpContinuation, r = "server", <<120>>, PeerKey)

LastFragment(r) ==
  RawFrame(TRUE, FALSE, OpContinuation, r = "server", <<97>>, PeerKey)

BetweenFragments(r) ==
  {MiddleFragment(r),
   RawFrame(TRUE, FALSE, OpPing, r = "server", <<112>>, PeerKey),
   RawFrame(TRUE, FALSE, OpPong, r = "server", <<113>>, PeerKey)}

FragmentedMessages(r) ==
  {fs \in FrameSeqs({FirstFragment(r), LastFragment(r)} \cup BetweenFragments(r),
                    MaxFragmentFrames) :
     /\ Len(fs) >= 2
     /\ fs[1] = FirstFragment(r)
     /\ fs[Len(fs)] = LastFragment(r)
     /\ \A i \in 2..(Len(fs) - 1) : fs[i] \in BetweenFragments(r)}

InitFragments ==
  /\ InitCommon
  /\ role \in {"client", "server"}
  /\ rand = PeerKey
  /\ \E pmd \in BOOLEAN :
       conn = IF role = "client" THEN OpenClient(pmd, rand) ELSE OpenServer(pmd)
  /\ maxMessageLength = 1
  /\ peerFrames \in FragmentedMessages(role)
  /\ inflight = Concat(peerFrames)
  /\ sentPayload = NoPayload

\* the numbers of bytes of the peer's frames at which a frame ends
FrameBoundaries ==
  {Len(Concat(SubSeq(peerFrames, 1, i))) : i \in 0..Len(peerFrames)}

SocketDataAtFrames ==
  \E k \in 1..Len(inflight) :
    /\ \/ k = 1
       \/ (Len(Concat(peerFrames)) - Len(inflight) + k) \in FrameBoundaries
    /\ SocketData(k)

NextFragments ==
  \/ SocketDataAtFrames
  \/ RunTick
  \/ LoopHead
  \/ Resume

SpecFragments == InitFragments /\ [][NextFragments]_vars

\* the payloads of the fragments as the peer wrote them, in wire order
FragmentPayloads ==
  LET raw == [i \in 1..Len(peerFrames) |->
                decodeWebSocketFrame(peerFrames[i], FALSE)]
      data == SelectSeq(raw, LAMBDA d : d.opcode \in {OpContinuation, OpText,
                                                       OpBinary})
  IN [i \in 1..Len(data) |-> data[i].payload]

RoutesLastFragment ==
  /\ RoutesNow
  /\ Head(micro).res.opcode = OpContinuation
  /\ Head(micro).res.fin

UncompressedFragmentsUnmodified ==
  conn.perMessageDeflate =>
    /\ EventsOf(conn, "error") = <<>>
    /\ Quiescent => Messages(conn) = <<Concat(FragmentPayloads)>>

(***************************************************************************)
(* The client's handshake with a peer that writes frames of its own right  *)
(* behind the 101 response, among them a CONTINUATION frame with RSV1 set. *)
(* The transport delivers the bytes up to a place shortly before the end   *)
(* of the response, up to the end of the response or up to the end of a    *)
(* frame.                                                                  *)
(***************************************************************************)
Rsv1Continuation(r) ==
  RawFrame(TRUE, TRUE, OpContinuation, r = "server", <<99>>, PeerKey)

HandshakeFrameSet ==
  {RawFrame(TRUE, FALSE, OpText, FALSE, <<97>>, PeerKey),
   Rsv1Continuation("client"),
   RawFrame(TRUE, FALSE, OpPing, FALSE, <<112>>, PeerKey)}

InitHandshakeFrames ==
  /\ chunks = <<>>
  /\ socketEnded = FALSE
  /\ ticks = 0
  /\ micro = <<>>
  /\ pc = "idle"
  /\ routed = <<>>
  /\ calls = <<>>
  /\ role = "client"
  /\ rand = PeerKey
  /\ conn = NewConnection("client", FALSE)
  /\ maxMessageLength = 1
  /\ sentPayload = NoPayload
  /\ codec = NoCodec
  /\ transport = FirstTransport
  /\ linkedList = NewLinkedList
  /\ \E offerPerMessageDeflate \in BOOLEAN, support \in BOOLEAN :
       server = handleUpgrade(NewServer(support),
                              requestUpgrade(offerPerMessageDeflate), "none")
  /\ peerFrames \in FrameSeqs(HandshakeFrameSet, MaxPeerFrames)
  /\ inflight = server.upgrades[1].response \o Concat(peerFrames)

\* the numbers of bytes of the response and the frames behind it at which
\* a read may end
HandshakeFrameCuts ==
  LET head == Len(server.upgrades[1].response)
  IN {head - 2}
     \cup {head + Len(Concat(SubSeq(peerFrames, 1, i))) : i \in 0..Len(peerFrames)}

SocketDataAtHandshakeFrames ==
  \E k \in 1..Len(inflight) :
    /\ (Len(server.upgrades[1].response) + Len(Concat(peerFrames))
          - Len(inflight) + k) \in HandshakeFrameCuts
    /\ SocketData(k)

NextHandshakeFrames ==
  \/ SocketDataAtHandshakeFrames
  \/ RunTick
  \/ LoopHead
  \/ Resume

SpecHandshakeFrames == InitHandshakeFrames /\ [][NextHandshakeFrames]_vars

\* this step has called decodeWebSocketFrame on a CONTINUATION frame with
\* RSV1 set
DecodesRsv1Now ==
  /\ micro' # micro
  /\ micro' # <<>>
  /\ Last(micro').res.kind = "rsv1"

IsRsv1Close(w, r) ==
  LET d == decodeWebSocketFrame(w.bytes, FALSE)
  IN /\ d.kind = "frame"
     /\ d.opcode = OpClose
     /\ d.fin
     /\ d.masked = (r = "client")
     /\ d.payload = StrRsv1
     /\ d.remaining = <<>>

\* the peer's frames in front of its first CONTINUATION frame with RSV1
FramesBeforeRsv1 ==
  LET d == DecodedPeerFrames
  IN IF \E i \in 1..Len(d) : d[i].kind = "rsv1"
     THEN (CHOOSE i \in 1..Len(d) :
             /\ d[i].kind = "rsv1"
             /\ \A j \in 1..(i - 1) : d[j].kind # "rsv1") - 1
     ELSE Len(d)

(***************************************************************************)
(* C28: the step that decodes a CONTINUATION frame with RSV1 set emits one *)
(* `error` with the reason 'RSV1 must not be set for continuation frames', *)
(* writes one CLOSE frame with this reason, destroys the transport and     *)
(* routes nothing; this happens once per connection, and neither that      *)
(* frame nor a frame behind it is ever routed.                             *)
(***************************************************************************)
Rsv1ContinuationFails ==
  [][/\ DecodesRsv1Now =>
          /\ EventsOf(conn, "error") = <<>>
          /\ EventsOf(conn', "error") = <<Event("error", StrRsv1)>>
          /\ Len(conn'.wire) = Len(conn.wire) + 1
          /\ SubSeq(conn'.wire, 1, Len(conn.wire)) = conn.wire
          /\ IsRsv1Close(Last(conn'.wire), role)
          /\ ~Last(conn'.wire).dropped
          /\ conn'.destroyed
          /\ routed' = routed
     /\ ~DecodesRsv1Now => EventsOf(conn', "error") = EventsOf(conn, "error")
     /\ Len(routed') <= FramesBeforeRsv1
    ]_vars

\* the number of the peer's frames of which the last byte has been read
FramesReceived ==
  LET received == Len(server.upgrades[1].response) + Len(Concat(peerFrames))
                    - Len(inflight)
  IN Cardinality({i \in 1..Len(peerFrames) :
       Len(server.upgrades[1].response)
         + Len(Concat(SubSeq(peerFrames, 1, i))) <= received})

(***************************************************************************)
(* C29: the frames whose bytes arrived with the handshake response are     *)
(* routed without a further read: whenever the client has nothing left to  *)
(* run, every frame that was read completely (up to the first frame that   *)
(* the decoder rejects) has been routed.                                   *)
(***************************************************************************)
FramesWithHandshakeRouted ==
  (EventLoopIdle /\ HeadReceived) =>
    \/ Len(routed) >= FramesReceived
    \/ Len(routed) >= FramesBeforeRsv1

(***************************************************************************)
(* C30: decodeWebSocketFrame returns undefined (more bytes needed) on      *)
(* every proper prefix of an encoded frame, and on the frame followed by   *)
(* further bytes it returns the fin, opcode, masked and payload that it    *)
(* returns on the frame alone, with these further bytes as remaining.      *)
(***************************************************************************)
DecodeWaitsForWholeFrame ==
  /\ codec.stage = "prefix" => codec.result = NeedMore
  /\ codec.stage = "decoded" =>
       LET alone == decodeWebSocketFrame(codec.frame, codec.pmd)
       IN /\ alone.kind = "frame"
          /\ alone.remaining = <<>>
          /\ codec.result.kind = "frame"
          /\ codec.result.fin = alone.fin
          /\ codec.result.opcode = alone.opcode
          /\ codec.result.masked = alone.masked
          /\ codec.result.payload = alone.payload
          /\ codec.result.remaining = codec.extra

\* a masked frame with the 16-bit length, decoded with the start of a next
\* frame behind it
DecodeWaitsForWholeFrameWitness ==
  /\ codec.stage = "decoded"
  /\ Len(codec.payload) = 126
  /\ codec.mask
  /\ codec.extra = <<129, 1>>
  /\ codec.result.kind = "frame"
  /\ codec.result.payload = codec.payload
  /\ codec.result.remaining = <<129, 1>>

(***************************************************************************)
(* C31: per connection at most one _processChunk invocation is under way:  *)
(* while one is suspended at an await or stands at the head of its loop,   *)
(* no other invocation is queued by process.nextTick, suspended or         *)
(* running, so nothing else shifts or prepends chunks between its shift    *)
(* and its prepend or return.                                              *)
(***************************************************************************)
InvocationsUnderWay ==
  ticks + Len(micro) + (IF pc = "loop" THEN 1 ELSE 0)

OneProcessChunkAtATime ==
  /\ [](InvocationsUnderWay <= 1)
  /\ [][ /\ (micro # <<>> \/ pc = "loop")
         /\ chunks' # chunks
         => /\ InvocationsUnderWay = 1
            /\ InvocationsUnderWay' <= 1
            /\ inflight' = inflight ]_vars

\* an invocation has shifted a partial frame and is suspended at its await
\* while the rest of the frame waits in the transport for the next read
OneProcessChunkAtATimeWitness ==
  /\ Len(micro) = 1
  /\ Head(micro).res.kind = "need"
  /\ chunks = <<>>
  /\ inflight # <<>>
  /\ ticks = 0

(***************************************************************************)
(* Reconnection.  An open client reads frames of its first connection,     *)
(* the user may call close(), the socket may fail, and connect() is called *)
(* again: it destroys the socket, makes a new one with a new LinkedList    *)
(* and a new 'data' listener, and sets readyState to CONNECTING.  The      *)
(* listeners of the earlier socket stay attached to it, and a              *)
(* _processChunk invocation that is suspended at an await keeps the        *)
(* earlier LinkedList; it resumes in the same microtask drain, before any  *)
(* byte of the new socket is read.  The server answers the new upgrade     *)
(* request with 101.                                                       *)
(***************************************************************************)
connect(c) ==
  [c EXCEPT !.destroyed = FALSE, !.wire = <<>>, !.readyState = CONNECTING]

ReconnectFrameSet ==
  {RawFrame(TRUE, FALSE, OpText, FALSE, <<97>>, PeerKey),
   RawFrame(FALSE, FALSE, OpText, FALSE, <<98>>, PeerKey),
   RawFrame(TRUE, FALSE, OpPing, FALSE, <<112>>, PeerKey),
   RawFrame(TRUE, FALSE, OpClose, FALSE, <<114>>, PeerKey)}

InitReconnect ==
  /\ InitCommon
  /\ role = "client"
  /\ rand = PeerKey
  /\ \E pmd \in BOOLEAN : conn = OpenClient(pmd, rand)
  /\ maxMessageLength = 1
  /\ peerFrames \in FrameSeqs(ReconnectFrameSet, MaxPeerFrames)
  /\ inflight = Concat(peerFrames)
  /\ sentPayload = NoPayload

Connect ==
  /\ pc = "idle"
  /\ ticks = 0
  /\ transport.socket <= MaxConnectCalls
  /\ conn' = connect(conn)
  /\ transport' = [transport EXCEPT !.socket = @ + 1]
  /\ \E support \in BOOLEAN : inflight' = UpgradeResponse(TRUE, support)
  /\ peerFrames' = <<>>
  /\ socketEnded' = FALSE
  /\ UNCHANGED <<role, maxMessageLength, chunks, ticks, micro, pc, routed,
                 calls, sentPayload, rand, server, codec, linkedList>>

\* A read of this._socket: its 'data' listener appends to the LinkedList
\* made by the connect() that made the socket.  Frames are split anywhere,
\* a handshake response before its last two bytes or not at all.
SocketDataReconnect ==
  \E k \in 1..Len(inflight) :
    /\ EventLoopIdle
    /\ ~conn.destroyed
    /\ transport.socket = 1 \/ (Len(inflight) - k) \in {0, 2}
    /\ chunks' = append(IF transport.list = transport.socket
                        THEN chunks ELSE <<>>,
                        SubSeq(inflight, 1, k))
    /\ transport' = [transport EXCEPT !.list = transport.socket]
    /\ inflight' = SliceFrom(inflight, k)
    /\ ticks' = ticks + 1
    /\ UNCHANGED <<role, maxMessageLength, conn, peerFrames, socketEnded,
                   micro, pc, routed, calls, sentPayload, rand, server, codec, linkedList>>

\* An earlier socket emits 'error' (a write that failed before connect()
\* replaced the socket): its listener, attached by the earlier connect(),
\* re-emits the error on the WebSocket.
PriorSocketError ==
  /\ pc = "idle"
  /\ transport.socket > 1
  /\ transport.priorErrors = 0
  /\ conn' = emitError(conn, Undefined)
  /\ transport' = [transport EXCEPT !.priorErrors = @ + 1]
  /\ UNCHANGED <<role, maxMessageLength, chunks, inflight, peerFrames,
                 socketEnded, ticks, micro, pc, routed, calls, sentPayload,
                 rand, server, codec, linkedList>>

NextReconnect ==
  \/ SocketDataReconnect
  \/ RunTick
  \/ LoopHead
  \/ Resume
  \/ Close
  \/ SocketError
  \/ Connect
  \/ PriorSocketError

SpecReconnect == InitReconnect /\ [][NextReconnect]_vars

\* this step is an event of an earlier socket: its 'error', or a step of
\* the _processChunk invocation that works on the chunks read from it
FromPriorTransport ==
  \/ transport'.priorErrors # transport.priorErrors
  \/ /\ transport.list # transport.socket
     /\ transport' = transport
     /\ micro' # micro \/ pc' # pc

(***************************************************************************)
(* C32: after connect() has replaced the socket, an event of the earlier   *)
(* socket (its 'error', or the processing of chunks read from it) does not *)
(* destroy the new socket, does not change readyState and writes no frame  *)
(* to the new socket.                                                      *)
(***************************************************************************)
PriorTransportIgnored ==
  [][FromPriorTransport =>
       /\ conn'.destroyed = conn.destroyed
       /\ conn'.readyState = conn.readyState
       /\ conn'.wire = conn.wire]_vars

(***************************************************************************)
(* C33: every connect() starts the new connection attempt with an empty    *)
(* continuation list, sentClose false and perMessageDeflate false, and     *)
(* perMessageDeflate stays false while the attempt is CONNECTING.          *)
(***************************************************************************)
ConnectStartsFresh ==
  /\ [][transport'.socket # transport.socket =>
          /\ conn'.continuationPayloads = <<>>
          /\ ~conn'.sentClose
          /\ ~conn'.perMessageDeflate]_vars
  /\ [](transport.socket > 1 /\ conn.readyState = CONNECTING =>
          ~conn.perMessageDeflate)

(***************************************************************************)
(* C34: a step in which a server-side connection emits `close` takes that  *)
(* connection out of server.connections and leaves the other registered    *)
(* connections in the list, in their order, also when the connection was   *)
(* not in the list.                                                        *)
(***************************************************************************)
ClosesEmitted(c) == Len(SelectSeq(c.events, LAMBDA e : e.type = "close"))

Others(connections, id) == SelectSeq(connections, LAMBDA j : j # id)

CloseRemovesOnlyItsConnection ==
  [][\A id \in 1..Len(server.websockets) :
       ClosesEmitted(server'.websockets[id]) > ClosesEmitted(server.websockets[id])
       => /\ Others(server'.connections, id) = Others(server.connections, id)
          /\ \A i \in 1..Len(server'.connections) :
               server'.connections[i] # id]_vars

(***************************************************************************)
(* C35: the step that routes a fin=1 CONTINUATION frame emits a `message`  *)
(* that is the concatenation of one start frame (TEXT or BINARY with       *)
(* fin=0) and the CONTINUATION frames routed after it, with nothing but    *)
(* complete control frames in between: there is such a start frame, and    *)
(* no other payload is part of the message.                                *)
(***************************************************************************)
IsControl(f) == f.opcode \in {OpClose, OpPing, OpPong}

\* the routed frames from..to that carry message data
DataPayloads(frames, from, to) ==
  LET data == SelectSeq(SubSeq(frames, from, to), LAMBDA f : ~IsControl(f))
  IN [i \in 1..Len(data) |-> data[i].payload]

\* the places of a start frame that the frame routed last completes
StartsOfLast(frames) ==
  {s \in 1..(Len(frames) - 1) :
     /\ frames[s].opcode \in {OpText, OpBinary}
     /\ ~frames[s].fin
     /\ \A k \in (s + 1)..(Len(frames) - 1) :
          \/ frames[k].opcode = OpContinuation /\ ~frames[k].fin
          \/ IsControl(frames[k]) /\ frames[k].fin}

MessageHasOneStartFrame ==
  [][RoutesLastFragment /\ ~WrongMask(role, Head(micro).res.masked) =>
       /\ StartsOfLast(routed') # {}
       /\ \A s \in StartsOfLast(routed') :
            Last(conn'.events)
              = Event("message", Concat(DataPayloads(routed', s, Len(routed'))))
    ]_vars

(***************************************************************************)
(* C36: on a server-side connection every `message` event comes after the  *)
(* `open` event: none is emitted while readyState is CONNECTING.           *)
(***************************************************************************)
NoMessageBeforeOpen ==
  role = "server" =>
    \A i \in 1..Len(conn.events) :
      conn.events[i].type = "message" =>
        \E j \in 1..(i - 1) : conn.events[j].type = "open"

(***************************************************************************)
(* C37: no buffer is handed to _socket.write after _socket.destroy() has   *)
(* been called: neither a reply to a frame that was buffered behind the    *)
(* frame that caused the destroy, nor a frame of a call made by the user.  *)
(***************************************************************************)
NoWriteAfterDestroy ==
  \A i \in 1..Len(conn.wire) : ~conn.wire[i].dropped

(***************************************************************************)
(* C38: the outcome of the client's handshake is that of the response head *)
(* alone, however the transport has split the head and the frame bytes     *)
(* behind it: the client opens exactly if the head is a 101 response, it   *)
(* fails exactly if it is not, and once open its perMessageDeflate flag is *)
(* what decodeWebSocketHandshakeResponse returns for the head.             *)
(***************************************************************************)
HeadAlone == decodeWebSocketHandshakeResponse(server.upgrades[1].response)

HandshakeResultFromHeadOnly ==
  /\ EventsOf(conn, "open") # <<>> =>
       /\ HeadAlone.handshakeSucceeded
       /\ conn.perMessageDeflate = HeadAlone.perMessageDeflate
  /\ EventsOf(conn, "error") # <<>> => ~HeadAlone.handshakeSucceeded

(***************************************************************************)
(* The decoder and its input buffer.  decodeWebSocketFrame unmasks the     *)
(* payload in place: payload is a slice of buffer, and payload[i] ^= ...   *)
(* writes into buffer.  A masked frame reaches _processChunk cut in two    *)
(* or more chunks; the chunk that holds its start is decoded, and as long  *)
(* as the result is undefined the next chunk is concatenated behind the    *)
(* buffer that the decoder was given (or the buffer is pushed back and     *)
(* taken again by the next invocation), and the whole is decoded again.    *)
(***************************************************************************)
\* the input buffer with the payload bytes that are present unmasked in
\* place, before the length of the buffer is tested
bufferAfterDecodeUnmaskingEarly(buffer, pmd) ==
  IF Len(buffer) < 6 \/ buffer[2] \div 128 = 0 \/ buffer[2] % 128 > 125
  THEN buffer
  ELSE Slice(buffer, 0, 6)
       \o ApplyMask(Slice(buffer, 6, 6 + (buffer[2] % 128)), Slice(buffer, 2, 6))
       \o SliceFrom(buffer, 6 + (buffer[2] % 128))

\* the input buffer as decodeWebSocketFrame leaves it
bufferAfterDecode(buffer, pmd) ==
  IF decodeWebSocketFrame(buffer, pmd).kind # "frame" THEN buffer
  ELSE
    LET secondByte == buffer[2]
        masked == secondByte \div 128 = 1
        len7 == secondByte % 128
        payloadLen == IF len7 = 126 THEN buffer[3] * 256 + buffer[4]
                      ELSE IF len7 = 127 THEN ReadBigEndian(buffer, 3, 10, 0)
                      ELSE len7
        offset0 == IF len7 = 126 THEN 4 ELSE IF len7 = 127 THEN 10 ELSE 2
    IN IF ~masked THEN buffer
       ELSE LET maskingKey == Slice(buffer, offset0, offset0 + 4)
                offset == offset0 + 4
            IN Slice(buffer, 0, offset)
               \o ApplyMask(Slice(buffer, offset, offset + payloadLen), maskingKey)
               \o SliceFrom(buffer, offset + payloadLen)

\* a frame of the peer and the place where the transport cuts it first
DecodeInPlaceInputs ==
  {c \in [stage : {"received"},
          payload : {CodecBytes(n) : n \in {0, 1, 5, 126}},
          opcode : {OpText, OpPing},
          mask : BOOLEAN,
          key : MaskKeys,
          cut : 1..134,
          frame : {<<>>},
          buffer : {<<>>},
          rest : {<<>>},
          result : {NeedMore}] :
     /\ c.opcode = OpPing => Len(c.payload) < 126
     /\ ~c.mask => c.key = PeerKey
     /\ c.cut <= Len(encodeWebSocketFrame(c.payload, c.opcode, c.mask, TRUE,
                                          FALSE, c.key))}

InitDecodeInPlace ==
  /\ chunks = <<>>
  /\ socketEnded = FALSE
  /\ ticks = 0
  /\ micro = <<>>
  /\ pc = "idle"
  /\ routed = <<>>
  /\ calls = <<>>
  /\ server = NewServer(FALSE)
  /\ transport = FirstTransport
  /\ linkedList = NewLinkedList
  /\ role = "client"
  /\ rand = PeerKey
  /\ conn = OpenClient(FALSE, rand)
  /\ maxMessageLength = 1
  /\ peerFrames = <<>>
  /\ inflight = <<>>
  /\ sentPayload = NoPayload
  /\ \E c \in DecodeInPlaceInputs :
       LET frame == encodeWebSocketFrame(c.payload, c.opcode, c.mask, TRUE,
                                         FALSE, c.key)
       IN codec = [c EXCEPT !.frame = frame,
                            !.buffer = Slice(frame, 0, c.cut),
                            !.rest = SliceFrom(frame, c.cut)]

\* let chunk = chunks.shift(); decodeResult = await decodeWebSocketFrame(chunk)
DecodeChunk ==
  /\ codec.stage = "received"
  /\ LET res == decodeWebSocketFrame(codec.buffer, FALSE)
     IN codec' = [codec EXCEPT
          !.stage = IF res = NeedMore THEN "pushed back" ELSE "done",
          !.buffer = bufferAfterDecode(codec.buffer, FALSE),
          !.result = res]
  /\ UNCHANGED <<role, maxMessageLength, conn, chunks, inflight, peerFrames,
                 socketEnded, ticks, micro, pc, routed, calls, sentPayload,
                 rand, server, transport, linkedList>>

\* chunk = Buffer.concat([chunk, chunks.shift()]) and the next decode, in
\* the inner loop or after chunks.prepend(chunk) in the next invocation;
\* the next chunk holds all the bytes that were missing or, for a short
\* frame, one byte
DecodeWithMore ==
  /\ codec.stage = "pushed back"
  /\ \E k \in {Len(codec.rest)} \cup (IF Len(codec.frame) <= 16 THEN {1} ELSE {}) :
       LET chunk == codec.buffer \o Slice(codec.rest, 0, k)
           res == decodeWebSocketFrame(chunk, FALSE)
       IN codec' = [codec EXCEPT
            !.stage = IF res = NeedMore THEN "pushed back" ELSE "done",
            !.buffer = bufferAfterDecode(chunk, FALSE),
            !.rest = SliceFrom(codec.rest, k),
            !.result = res]
  /\ UNCHANGED <<role, maxMessageLength, conn, chunks, inflight, peerFrames,
                 socketEnded, ticks, micro, pc, routed, calls, sentPayload,
                 rand, server, transport, linkedList>>

NextDecodeInPlace ==
  \/ DecodeChunk
  \/ DecodeWithMore

SpecDecodeInPlace == InitDecodeInPlace /\ [][NextDecodeInPlace]_vars

(***************************************************************************)
(* C39: when decodeWebSocketFrame returns undefined for want of bytes, its *)
(* input buffer still holds the bytes that were read from the transport;   *)
(* and the payload returned once the frame is complete is the payload the  *)
(* peer masked: every byte has been unmasked exactly once.                 *)
(***************************************************************************)
DecodeLeavesPartialChunk ==
  /\ codec.stage = "pushed back" =>
       /\ codec.result = NeedMore
       /\ codec.buffer = Slice(codec.frame, 0, Len(codec.buffer))
  /\ codec.stage = "done" =>
       /\ codec.result.kind = "frame"
       /\ codec.result.masked = codec.mask
       /\ codec.result.payload = codec.payload
       /\ codec.result.remaining = <<>>

\* a masked frame of five payload bytes whose first chunk ended inside the
\* payload, completed byte by byte
DecodeLeavesPartialChunkWitness ==
  /\ codec.stage = "done"
  /\ codec.mask
  /\ Len(codec.payload) = 5
  /\ codec.cut = 8
  /\ codec.rest = <<>>
  /\ codec.result.payload = codec.payload
  /\ codec.buffer # codec.frame

(***************************************************************************)
(* class LinkedList.  A Map is a function from the elements that are its   *)
(* keys; elements are numbers from 1, Null stands for null and undefined.  *)
(* An element is put into a list once.                                     *)
(***************************************************************************)
MapGet(map, key) == IF key \in DOMAIN map THEN map[key] ELSE Null

MapSet(map, key, value) ==
  [k \in DOMAIN map \cup {key} |-> IF k = key THEN value ELSE map[k]]

MapDelete(map, key) == [k \in DOMAIN map \ {key} |-> map[k]]

\* an insertBefore that leaves this.first alone when the list is not empty
insertBeforeKeepingFirst(l, o, existing) ==
  LET existingPrev == MapGet(l.prevMap, existing)
  IN [l EXCEPT
        !.prevMap = IF existing # Null
                    THEN MapSet(MapSet(@, o, existingPrev), existing, o)
                    ELSE MapSet(@, o, Null),
        !.nextMap = IF existing # Null
                    THEN MapSet(IF existingPrev # Null
                                THEN MapSet(@, existingPrev, o) ELSE @,
                                o, existing)
                    ELSE @,
        !.first = IF l.first = Null THEN o ELSE @,
        !.last = IF l.last = Null THEN o ELSE @]

insertBefore(l, o, existing) ==
  LET existingPrev == MapGet(l.prevMap, existing)
  IN [l EXCEPT
        !.prevMap = IF existing # Null
                    THEN MapSet(MapSet(@, o, existingPrev), existing, o)
                    ELSE MapSet(@, o, Null),
        !.nextMap = IF existing # Null
                    THEN MapSet(IF existingPrev # Null
                                THEN MapSet(@, existingPrev, o) ELSE @,
                                o, existing)
                    ELSE @,
        !.first = IF l.first = Null \/ l.first = existing THEN o ELSE @,
        !.last = IF l.last = Null THEN o ELSE @]

LinkedListPrepend(l, o) == insertBefore(l, o, l.first)

insertAfter(l, o, existing) ==
  LET existingNext == MapGet(l.nextMap, existing)
  IN [l EXCEPT
        !.nextMap = IF existing # Null
                    THEN MapSet(MapSet(@, o, existingNext), existing, o)
                    ELSE MapSet(@, o, Null),
        !.prevMap = IF existing # Null
                    THEN MapSet(IF existingNext # Null
                                THEN MapSet(@, existingNext, o) ELSE @,
                                o, existing)
                    ELSE @,
        !.first = IF l.first = Null THEN o ELSE @,
        !.last = IF l.last = Null \/ l.last = existing THEN o ELSE @]

LinkedListAppend(l, o) == insertAfter(l, o, l.last)

LinkedListDelete(l, o) ==
  LET next == MapGet(l.nextMap, o)
      prev == MapGet(l.prevMap, o)
      nextMap1 == IF next # Null /\ prev # Null THEN MapSet(l.nextMap, prev, next)
                  ELSE IF next = Null /\ prev # Null
                  THEN MapSet(l.nextMap, prev, Null)
                  ELSE l.nextMap
      prevMap1 == IF next # Null /\ prev # Null THEN MapSet(l.prevMap, next, prev)
                  ELSE IF next # Null THEN MapSet(l.prevMap, next, Null)
                  ELSE l.prevMap
  IN [l EXCEPT !.nextMap = MapDelete(nextMap1, o),
               !.prevMap = MapDelete(prevMap1, o),
               !.first = IF o = l.first THEN next ELSE @,
               !.last = IF o = l.last THEN prev ELSE @]

LinkedListShift(l) ==
  [LinkedListDelete(l, l.first) EXCEPT !.returned = l.first]

LinkedListLength(l) ==
  IF Cardinality(DOMAIN l.nextMap) > Cardinality(DOMAIN l.prevMap)
  THEN Cardinality(DOMAIN l.nextMap) ELSE Cardinality(DOMAIN l.prevMap)

(***************************************************************************)
(* The LinkedList next to the sequence that stands for it elsewhere in     *)
(* this module: every append, prepend and shift is made on both.           *)
(***************************************************************************)
InitLinkedList ==
  /\ InitCommon
  /\ role = "client"
  /\ rand = PeerKey
  /\ conn = OpenClient(FALSE, rand)
  /\ maxMessageLength = 1
  /\ peerFrames = <<>>
  /\ inflight = <<>>
  /\ sentPayload = NoPayload

ListStep(l, sequence) ==
  /\ linkedList' = l
  /\ chunks' = sequence
  /\ UNCHANGED <<role, maxMessageLength, conn, inflight, peerFrames,
                 socketEnded, ticks, micro, pc, routed, calls, sentPayload,
                 rand, server, codec, transport>>

ListAppend ==
  /\ linkedList.made < MaxListElements
  /\ LET o == linkedList.made + 1
     IN ListStep([LinkedListAppend(linkedList, o) EXCEPT !.made = o],
                 append(chunks, o))

ListPrepend ==
  /\ linkedList.made < MaxListElements
  /\ LET o == linkedList.made + 1
     IN ListStep([LinkedListPrepend(linkedList, o) EXCEPT !.made = o],
                 prepend(chunks, o))

ListShift ==
  ListStep(LinkedListShift(linkedList),
           IF chunks = <<>> THEN chunks ELSE Tail(chunks))

NextLinkedList ==
  \/ ListAppend
  \/ ListPrepend
  \/ ListShift

SpecLinkedList == InitLinkedList /\ [][NextLinkedList]_vars

\* the elements from this.first along nextMap
RECURSIVE ElementsFrom(_, _, _)
ElementsFrom(l, cur, fuel) ==
  IF cur = Null \/ fuel = 0 THEN <<>>
  ELSE <<cur>> \o ElementsFrom(l, MapGet(l.nextMap, cur), fuel - 1)

\* the elements from this.last along prevMap
RECURSIVE ElementsBackFrom(_, _, _)
ElementsBackFrom(l, cur, fuel) ==
  IF cur = Null \/ fuel = 0 THEN <<>>
  ELSE ElementsBackFrom(l, MapGet(l.prevMap, cur), fuel - 1) \o <<cur>>

(***************************************************************************)
(* C40: after any sequence of append, prepend and shift on distinct        *)
(* elements the LinkedList holds the elements of the double-ended queue,   *)
(* in its order, read from either end; length is their number; and shift   *)
(* returns the element that was first, or nothing from an empty list.      *)
(***************************************************************************)
LinkedListIsDeque ==
  /\ [](/\ ElementsFrom(linkedList, linkedList.first, linkedList.made + 1) = chunks
        /\ ElementsBackFrom(linkedList, linkedList.last, linkedList.made + 1) = chunks
        /\ LinkedListLength(linkedList) = Len(chunks))
  /\ [][linkedList'.made = linkedList.made =>
          linkedList'.returned = IF chunks = <<>> THEN Null ELSE Head(chunks)]_vars

\* 1 appended, 2 prepended, 3 appended, then 2 shifted: 1 and 3 are left
LinkedListIsDequeWitness ==
  /\ chunks = <<1, 3>>
  /\ linkedList.returned = 2
  /\ linkedList.first = 1
  /\ linkedList.last = 3
  /\ LinkedListLength(linkedList) = 2

====
